---- MODULE Spec2Model ----
(***************************************************************************)
(* A model of vulk's 2D scene graph (src/vulk/graphic/d2/scene.py): the    *)
(* widget tree with its two layouts, the action (animation) engine and the *)
(* render loop of the Scene.                                               *)
(*                                                                         *)
(* Numbers: Python's float arithmetic is modelled by exact rationals, a    *)
(* pair <<numerator, denominator>> in lowest terms with a positive         *)
(* denominator.  Times (delta, duration) are integers, the milliseconds    *)
(* BaseApp.run passes to render.                                           *)
(***************************************************************************)
EXTENDS Integers, Sequences, FiniteSets, TLC

\* ------------------------------------------------------------- bounds
NumLeaves == 2       \* temporal actions built in a run of the action engine
MaxDuration == 2     \* durations are 1..MaxDuration
MaxDelta == 2        \* deltas are 1..MaxDelta
MaxCount == 2        \* Repeat counts are 0..MaxCount
MaxCalls == 5        \* update calls made on the driven action
NumKids == 2         \* widgets that ask for a cell of the grid
MaxIdx == 1          \* cells asked for are (c, r) with c + r <= MaxIdx
NumWidgets == 4      \* widgets of a tree, the scene included
MaxChildren == 3     \* grid calls stop when children has this length
MaxOps == 5          \* calls made in a run of the widgets' actions
MaxFrames == 2       \* iterations of the loop of BaseApp.run
MaxEvents == 2       \* events one call of get_events returns
MaxLen == 5          \* length of a list given to ClearColorValue
MaxBuffers == 3      \* command buffers a pool allocates
MaxFree == 2         \* length of a list given to free_buffers

\* Python's None, for the fields that hold a widget or an action.
None == 0
\* Python's None, for the field Composite.actions before the first init.
NoList == <<None>>

\* The elements of a list.
Range(s) == {s[i] : i \in 1..Len(s)}

\* The element of a set of one element.  Only({e(x) : x \in {v}}) is e(v)
\* with v evaluated once, whatever the number of times e uses it.
Only(S) == CHOOSE r \in S : TRUE

\* ---------------------------------------------------------- rationals
Abs(n) == IF n < 0 THEN -n ELSE n

RECURSIVE Gcd(_, _)
Gcd(a, b) == IF b = 0 THEN a ELSE Gcd(b, a % b)

\* n / d in lowest terms, d # 0.
Norm(n, d) ==
    LET g == Gcd(Abs(n), Abs(d))
        s == IF d < 0 THEN -1 ELSE 1
    IN  <<(s * n) \div g, (s * d) \div g>>

R(n) == <<n, 1>>
RAdd(a, b) == Norm(a[1] * b[2] + b[1] * a[2], a[2] * b[2])
RSub(a, b) == Norm(a[1] * b[2] - b[1] * a[2], a[2] * b[2])
RMul(a, b) == Norm(a[1] * b[1], a[2] * b[2])
RDiv(a, b) == Norm(a[1] * b[2], a[2] * b[1])
RGeq(a, b) == a[1] * b[2] >= b[1] * a[2]

\* ------------------------------------------------------------- state
VARIABLES
    \* the widget tree
    parent,         \* widget -> its parent widget, or None
    children,       \* widget -> the list Widget.children
    shape,          \* widget -> Rectangle [x, y, width, height]
    color,          \* widget -> <<r, g, b, a>>
    children_grid,  \* widget -> the dict Widget.children_grid, in insertion
                    \*           order: a list of [w, cell]
    columns,        \* widget -> Widget.columns
    rows,           \* widget -> Widget.rows
    \* the action engine
    acts,           \* action -> the fields of the action object
    widget_actions, \* widget -> the list Widget.actions
    root,           \* the action the caller drives
    trace,          \* the init/update calls made by the last call on root
    hist,           \* what the caller did since the last init of root
    \* the scene
    wclass,         \* widget -> its class and, for a Label, its font_name
    renderers,      \* Scene.renderers: renderer name -> renderer object
    theme,          \* Scene.theme: the font names, in the order of theme.fonts
    rs,             \* the call of Scene.render in progress
    \* the application and the Vulkan objects
    app,            \* the BaseApp and its call of run
    clearvalue,     \* a call of ClearColorValue(float32, uint32, int32)
    pool,           \* a CommandPool and the last call on it
    \* history kept for the claims
    ghost

treeVars == <<parent, children, shape, color, children_grid, columns, rows>>
actVars == <<acts, widget_actions, root, trace, hist>>
sceneVars == <<wclass, renderers, theme>>
appVars == <<app, clearvalue, pool>>
vars == <<treeVars, actVars, sceneVars, appVars, rs, ghost>>

\* Rectangle(x, y, width, height) of vulk.math.shape.
Rectangle(x, y, width, height) ==
    [x |-> x, y |-> y, width |-> width, height |-> height]

\* Linear.apply of vulk.math.interpolation: the identity.
Linear_apply(percent) == percent

\* ----------------------------------------------------- widget getters
\* Widget.alpha (getter): the widget's own alpha times the parent's alpha.
RECURSIVE Widget_alpha(_, _, _)
Widget_alpha(par, col, w) ==
    IF par[w] # None
    THEN RMul(Widget_alpha(par, col, par[w]), col[w][4])
    ELSE col[w][4]

\* Widget.alpha (setter).
Widget_set_alpha(col, w, value) == [col EXCEPT ![w][4] = value]

\* Widget.color_abs reading the parent's color, not its color_abs.
Mut_Widget_color_abs(par, col, w) ==
    IF par[w] # None
    THEN [color |-> col,
          result |-> [i \in 1..4 |-> RMul(col[par[w]][i], col[w][i])]]
    ELSE [color |-> col, result |-> col[w]]

\* Widget.color_abs: [color, result], the colours of all widgets after the
\* read and the value read.
RECURSIVE Widget_color_abs(_, _, _)
Widget_color_abs(par, col, w) ==
    IF par[w] # None
    THEN LET pc == Widget_color_abs(par, col, par[w])
         IN  [color |-> pc.color,
              result |-> [i \in 1..4 |-> RMul(pc.result[i], pc.color[w][i])]]
    ELSE [color |-> col, result |-> col[w]]

\* Widget.collect_children without the copy: the result is the list
\* self.children itself, extended in place.
RECURSIVE Mut_Widget_collect_children(_, _)
Mut_Widget_collect_children(ch, w) ==
    LET step[i \in 0..Len(ch[w])] ==
            IF i = 0 THEN [children |-> ch, result |-> ch[w]]
            ELSE LET c == Mut_Widget_collect_children(step[i - 1].children,
                                                      ch[w][i])
                 IN  [children |-> c.children,
                      result |-> step[i - 1].result \o c.result]
        out == step[Len(ch[w])]
    IN  [children |-> [out.children EXCEPT ![w] = out.result],
         result |-> out.result]

\* Widget.collect_children visiting in pre-order: each child, then its
\* descendants, then the next child.
RECURSIVE Pre_Widget_collect_children(_, _)
Pre_Widget_collect_children(ch, w) ==
    LET step[i \in 0..Len(ch[w])] ==
            IF i = 0 THEN <<>>
            ELSE step[i - 1] \o <<ch[w][i]>>
                     \o Pre_Widget_collect_children(ch, ch[w][i]).result
    IN  [children |-> ch, result |-> step[Len(ch[w])]]

\* Widget.collect_children: [children, result], the children lists of all
\* widgets after the call and the list returned.
RECURSIVE Widget_collect_children(_, _)
Widget_collect_children(ch, w) ==
    LET step[i \in 0..Len(ch[w])] ==
            IF i = 0 THEN [children |-> ch, result |-> ch[w]]
            ELSE LET c == Widget_collect_children(step[i - 1].children,
                                                  ch[w][i])
                 IN  [children |-> c.children,
                      result |-> step[i - 1].result \o c.result]
    IN  step[Len(ch[w])]

\* -------------------------------------------------------- widget tree
(***************************************************************************)
(* The layout methods of Widget are operators on a tree                    *)
(*   [children, children_grid, columns, rows, shape],                      *)
(* the fields of all widgets they read and write.  A dict is a list of     *)
(* entries [w, cell] in insertion order, with one entry per key.           *)
(***************************************************************************)
\* list.remove(e): the list without the first occurrence of e.
ListRemove(s, e) ==
    IF \E i \in 1..Len(s) : s[i] = e
    THEN LET i == CHOOSE i \in 1..Len(s) :
                      s[i] = e /\ \A j \in 1..(i - 1) : s[j] # e
         IN  SubSeq(s, 1, i - 1) \o SubSeq(s, i + 1, Len(s))
    ELSE s

\* The keys of a dict.
DictKeys(d) == {d[i].w : i \in 1..Len(d)}

\* dict.pop(k)
DictPop(d, k) ==
    LET keep == {i \in 1..Len(d) : d[i].w # k}
        pick[i \in 0..Len(d)] ==
            IF i = 0 THEN <<>>
            ELSE IF i \in keep THEN Append(pick[i - 1], d[i])
            ELSE pick[i - 1]
    IN  pick[Len(d)]

\* d[k] = v: an existing key keeps its place, a new key goes last.
DictSet(d, k, v) ==
    IF k \in DictKeys(d)
    THEN [i \in 1..Len(d) |-> IF d[i].w = k THEN [w |-> k, cell |-> v] ELSE d[i]]
    ELSE Append(d, [w |-> k, cell |-> v])

\* Rectangle.set of vulk.math.shape: the rectangle takes the fields of r.
Rectangle_set(sh, w, r) == [sh EXCEPT ![w] = r]

\* Widget.column_width
Widget_column_width(t, p) == RDiv(t.shape[p].width, R(t.columns[p]))

\* Widget.row_width
Widget_row_width(t, p) == RDiv(t.shape[p].height, R(t.rows[p]))

\* Widget.grid_position_to_xy
Widget_grid_position_to_xy(t, p, grid_position) ==
    <<RAdd(t.shape[p].x, RMul(R(grid_position[1]), Widget_column_width(t, p))),
      RAdd(t.shape[p].y, RMul(R(grid_position[2]), Widget_row_width(t, p)))>>

\* Widget.reshape_grid: every entry of children_grid, in dict order.
Widget_reshape_grid(t, p) ==
    LET d == t.children_grid[p]
        step[i \in 0..Len(d)] ==
            IF i = 0 THEN t.shape
            ELSE LET xy == Widget_grid_position_to_xy(t, p, d[i].cell)
                 IN  Rectangle_set(step[i - 1], d[i].w,
                                   Rectangle(xy[1], xy[2],
                                             Widget_column_width(t, p),
                                             Widget_row_width(t, p)))
    IN  [t EXCEPT !.shape = step[Len(d)]]

\* Widget.x_rel, sh the shapes of the widgets
Widget_x_rel(sh, w) ==
    IF parent[w] # None THEN RSub(sh[parent[w]].x, sh[w].x) ELSE sh[w].x

\* Widget.y_rel
Widget_y_rel(sh, w) ==
    IF parent[w] # None THEN RSub(sh[parent[w]].y, sh[w].y) ELSE sh[w].y

\* Widget.reshape
Widget_reshape(t, w) == Widget_reshape_grid(t, w)

\* Widget.reshape_all
RECURSIVE Widget_reshape_all(_, _)
Widget_reshape_all(t, w) ==
    IF parent[w] # None
    THEN Widget_reshape_all(t, parent[w])
    ELSE Widget_reshape(t, w)

\* Widget.update_grid_size with the tests column > columns, row > rows.
Mut_Widget_update_grid_size(t, p, column, row) ==
    [t EXCEPT !.columns[p] = IF column > @ THEN column + 1 ELSE @,
              !.rows[p] = IF row > @ THEN row + 1 ELSE @]

\* Widget.update_grid_size
Widget_update_grid_size(t, p, column, row) ==
    [t EXCEPT !.columns[p] = IF column >= @ THEN column + 1 ELSE @,
              !.rows[p] = IF row >= @ THEN row + 1 ELSE @]

\* The existing_child that Widget.register_child_grid finds: the last key
\* of children_grid at (column, row), or None.
Widget_existing_child(t, p, column, row) ==
    LET d == t.children_grid[p]
        at == {i \in 1..Len(d) : d[i].cell = <<column, row>>}
    IN  IF at = {} THEN None
        ELSE d[CHOOSE i \in at : \A j \in at : j <= i].w

\* Widget.register_child_grid
Widget_register_child_grid(t, p, child, column, row) ==
    LET existing_child == Widget_existing_child(t, p, column, row)
        t1 == IF existing_child # None
              THEN [t EXCEPT !.children[p] = ListRemove(@, existing_child),
                             !.children_grid[p] = DictPop(@, existing_child)]
              ELSE t
    IN  [t1 EXCEPT !.children_grid[p] = DictSet(@, child, <<column, row>>),
                   !.children[p] = Append(@, child)]

\* Widget.add_child_to_grid
Widget_add_child_to_grid(t, p, child, column, row) ==
    Widget_reshape_grid(
        Widget_register_child_grid(
            Widget_update_grid_size(t, p, column, row), p, child, column, row),
        p)

\* Widget.grid
Widget_grid(t, w, column, row) ==
    Widget_add_child_to_grid(t, parent[w], w, column, row)

\* Widget.add_child_to_place
Widget_add_child_to_place(t, p, child, width, height, x, y) ==
    [t EXCEPT !.children[p] = Append(@, child),
              !.shape = Rectangle_set(@, child,
                            Rectangle(RAdd(t.shape[p].x, x),
                                      RAdd(t.shape[p].y, y), width, height))]

\* Widget.place
Widget_place(t, w, width, height, x, y) ==
    Widget_add_child_to_place(t, parent[w], w, width, height, x, y)

\* The tree of the current state.
Tree ==
    [children |-> children, children_grid |-> children_grid,
     columns |-> columns, rows |-> rows, shape |-> shape]

\* The fields of the tree become those of t.
SetTree(t) ==
    /\ children' = t.children
    /\ children_grid' = t.children_grid
    /\ columns' = t.columns
    /\ rows' = t.rows
    /\ shape' = t.shape

\* -------------------------------------------------------------- scene
(***************************************************************************)
(* A widget is a Scene, an Image, a Block or a Label with a font_name.  A  *)
(* renderer object is a number: 1 the SpriteBatch, 2 the BlockBatch, 2 + i *)
(* the TextRenderer of the i-th font of the theme.                         *)
(***************************************************************************)
Scene == [class |-> "Scene"]
Image == [class |-> "Image"]
Block == [class |-> "Block"]
Label(font_name) == [class |-> "Label", font_name |-> font_name]

\* Scene.__init__ with default_font the last font registered, not the first.
Mut_Scene_renderers(fonts) ==
    LET names == {"default", "block"} \cup Range(fonts)
                     \cup (IF fonts # <<>> THEN {"default_font"} ELSE {})
    IN  [n \in names |->
            IF n = "default_font" THEN 2 + Len(fonts)
            ELSE IF n \in Range(fonts)
            THEN 2 + CHOOSE i \in 1..Len(fonts) : fonts[i] = n
            ELSE IF n = "default" THEN 1 ELSE 2]

\* Scene.__init__: the registry built from the fonts of the theme, the
\* list of the font names in the iteration order of theme.fonts.
Scene_renderers(fonts) ==
    LET names == {"default", "block"} \cup Range(fonts)
                     \cup (IF fonts # <<>> THEN {"default_font"} ELSE {})
    IN  [n \in names |->
            IF n = "default_font" THEN 2 + 1
            ELSE IF n \in Range(fonts)
            THEN 2 + CHOOSE i \in 1..Len(fonts) : fonts[i] = n
            ELSE IF n = "default" THEN 1 ELSE 2]

\* Image.get_renderer_name, Block.get_renderer_name, Label.get_renderer_name
Widget_get_renderer_name(c) ==
    CASE c.class = "Image" -> "default"
      [] c.class = "Block" -> "block"
      [] c.class = "Label" -> c.font_name

\* No call of Scene.render in progress.
NoRender ==
    [pc |-> "idle", widgets |-> <<>>, i |-> 0, semaphores |-> NoList,
     renderer |-> None, calls |-> <<>>, result |-> None]

\* -------------------------------------------------------- application
(***************************************************************************)
(* app is the BaseApp object with the position of its call of run:         *)
(*   pc      "idle" before run, "while" at the test of the loop,           *)
(*           "get_events", "for" in the two loops over events and          *)
(*           listeners, "returned" once run has returned;                  *)
(*   events  the list get_events returned, i the index of the event and j  *)
(*           the index of the listener the loops are at;                   *)
(*   calls   the calls made since the last get_events:                     *)
(*           <<"handle", j, i>> for event_listeners[j].handle(events[i])   *)
(*           and <<"render">>.                                             *)
(* A listener is a "QuitEventListener", built with the callback quit, or a *)
(* "Listener" of the application that leaves the BaseApp alone; an event   *)
(* is a "QUIT" or a "KEY" event.                                           *)
(***************************************************************************)
\* BaseApp.__init__
NoApp ==
    [request_quit |-> FALSE, event_listeners |-> <<>>, pc |-> "idle",
     events |-> <<>>, i |-> 0, j |-> 0, calls |-> <<>>]

\* BaseApp.start
BaseApp_start(a) ==
    [a EXCEPT !.event_listeners = Append(@, "QuitEventListener")]

\* BaseApp.quit
BaseApp_quit(a) == [a EXCEPT !.request_quit = TRUE]

\* listener.handle(event) for the listener j and the event i: the
\* QuitEventListener of vulk.event calls its callback on a quit event.
Listener_handle(a, j, i) ==
    LET a1 == [a EXCEPT !.calls = Append(@, <<"handle", j, i>>)]
    IN  IF a.event_listeners[j] = "QuitEventListener" /\ a.events[i] = "QUIT"
        THEN BaseApp_quit(a1)
        ELSE a1

\* The test of the loop of BaseApp.run.
BaseApp_run_while(a) == ~a.request_quit

\* The end of the loop over the events, leaving it once quit was called.
Mut_BaseApp_run_for_end(a) == a.i > Len(a.events) \/ a.request_quit

\* The end of the loop over the events of BaseApp.run.
BaseApp_run_for_end(a) == a.i > Len(a.events)

(***************************************************************************)
(* clearvalue is one call of ClearColorValue(float32, uint32, int32).  An  *)
(* argument is [none, v]: None, or the list v.  The call ends with the     *)
(* exception it raised ("": none) and the attribute clear, the union       *)
(* [member, value] given to VkClearColorValue.                             *)
(***************************************************************************)
NoArg == [none |-> TRUE, v |-> <<>>]
ListArg(v) == [none |-> FALSE, v |-> v]
NoUnion == [member |-> "", value |-> <<>>]

NoClearValue ==
    [float32 |-> NoArg, uint32 |-> NoArg, int32 |-> NoArg, pc |-> "idle",
     raised |-> "", clear |-> NoUnion]

\* bool(v) for an argument: None and the empty list are false.
Truthy(arg) == ~arg.none /\ arg.v # <<>>

\* ClearColorValue.__init__: [raised, clear].  The loop that sets v to []
\* changes nothing; the size test takes the first element of
\* [v for v in t if t], which is float32 whatever was given, and len(None)
\* raises TypeError.
ClearColorValue_init(float32, uint32, int32) ==
    LET t == <<float32, uint32, int32>>
        first == t[1]
        clear1 == IF Truthy(float32)
                  THEN [member |-> "float32", value |-> float32.v]
                  ELSE NoUnion
        clear2 == IF Truthy(uint32)
                  THEN [member |-> "uint32", value |-> uint32.v]
                  ELSE clear1
        clear3 == IF Truthy(int32)
                  THEN [member |-> "int32", value |-> int32.v]
                  ELSE clear2
    IN  IF Cardinality({k \in 1..3 : Truthy(t[k])}) # 1
        THEN [raised |-> "VulkError", clear |-> NoUnion]
        ELSE IF first.none
        THEN [raised |-> "TypeError", clear |-> NoUnion]
        ELSE IF Len(first.v) # 4
        THEN [raised |-> "VulkError", clear |-> NoUnion]
        ELSE [raised |-> "", clear |-> clear3]

(***************************************************************************)
(* pool is a CommandPool and the last call made on it.  A CommandBuffer    *)
(* object is a number: the pool creates 1, 2, ... in this order, and       *)
(* Foreign is a CommandBuffer of another pool.  last is the call: its name,*)
(* its argument buffers, the list ret it returned, the exception it raised *)
(* ("": none) and vk, the handle lists of its vkFreeCommandBuffers calls.  *)
(***************************************************************************)
Foreign == MaxBuffers + 1

NoCall ==
    [op |-> "none", buffers |-> <<>>, ret |-> <<>>, raised |-> "",
     vk |-> <<>>]

\* CommandPool.__init__
NoPool == [commandbuffers |-> <<>>, created |-> 0, last |-> NoCall]

\* CommandBuffer.commandbuffer: the VkCommandBuffer of the object b.
CommandBuffer_commandbuffer(b) == <<"VkCommandBuffer", b>>

\* CommandPool.allocate_buffers
CommandPool_allocate_buffers(pl, count) ==
    LET commandbuffers == [k \in 1..count |-> pl.created + k]
    IN  [pl EXCEPT !.commandbuffers = @ \o commandbuffers,
                   !.created = @ + count,
                   !.last = [NoCall EXCEPT !.op = "allocate_buffers",
                                           !.ret = commandbuffers]]

\* CommandPool.free_buffers without the test on the buffers.
Mut_CommandPool_free_buffers(pl, buffers) ==
    LET step[k \in 0..Len(buffers)] ==
            IF k = 0 THEN [lst |-> pl.commandbuffers, raised |-> ""]
            ELSE IF step[k - 1].raised # "" THEN step[k - 1]
            ELSE IF buffers[k] \in Range(step[k - 1].lst)
            THEN [lst |-> ListRemove(step[k - 1].lst, buffers[k]),
                  raised |-> ""]
            ELSE [lst |-> step[k - 1].lst, raised |-> "ValueError"]
        out == step[Len(buffers)]
    IN  [pl EXCEPT !.commandbuffers = out.lst,
                   !.last = [NoCall EXCEPT
                       !.op = "free_buffers", !.buffers = buffers,
                       !.raised = out.raised,
                       !.vk = <<[k \in 1..Len(buffers) |->
                                   CommandBuffer_commandbuffer(buffers[k])]>>]]

\* CommandPool.free_buffers: list.remove raises ValueError when the buffer
\* is no longer in the list.
CommandPool_free_buffers(pl, buffers) ==
    IF \E k \in 1..Len(buffers) : buffers[k] \notin Range(pl.commandbuffers)
    THEN [pl EXCEPT !.last = [NoCall EXCEPT !.op = "free_buffers",
                                            !.buffers = buffers,
                                            !.raised = "VulkError"]]
    ELSE LET step[k \in 0..Len(buffers)] ==
                 IF k = 0 THEN [lst |-> pl.commandbuffers, raised |-> ""]
                 ELSE IF step[k - 1].raised # "" THEN step[k - 1]
                 ELSE IF buffers[k] \in Range(step[k - 1].lst)
                 THEN [lst |-> ListRemove(step[k - 1].lst, buffers[k]),
                       raised |-> ""]
                 ELSE [lst |-> step[k - 1].lst, raised |-> "ValueError"]
             out == step[Len(buffers)]
         IN  [pl EXCEPT !.commandbuffers = out.lst,
                        !.last = [NoCall EXCEPT
                            !.op = "free_buffers", !.buffers = buffers,
                            !.raised = out.raised,
                            !.vk = <<[k \in 1..Len(buffers) |->
                                CommandBuffer_commandbuffer(buffers[k])]>>]]

\* CommandPool.free
CommandPool_free(pl) ==
    LET buffers == pl.commandbuffers
    IN  [CommandPool_free_buffers(pl, buffers) EXCEPT !.last.op = "free"]

\* No application, no call of ClearColorValue and no pool.
AppIdle == app = NoApp /\ clearvalue = NoClearValue /\ pool = NoPool

\* ------------------------------------------------------ action engine
(***************************************************************************)
(* The methods of the actions are operators on a world                     *)
(*   [acts, shape, color, trace]:                                          *)
(* the action objects, the widgets' shapes and colours they write, and the *)
(* list of the init/update calls made so far, each <<method, action>>.     *)
(* init returns the new world; update returns [w, ret], the new world and  *)
(* the method's return value.                                              *)
(***************************************************************************)
TemporalKinds ==
    {"TemporalAction", "MoveTo", "MoveBy", "FadeIn", "FadeOut", "FadeTo"}

\* Action.init
Action_init(w, a, wid) == [w EXCEPT !.acts[a].widget = wid]

\* TemporalAction.init
TemporalAction_init(w, a, wid) ==
    [Action_init(w, a, wid) EXCEPT !.acts[a].time = 0]

\* TemporalAction.percent
TemporalAction_percent(w, a) == Norm(w.acts[a].time, w.acts[a].duration)

\* TemporalAction.update with the completion test percent > 1.
Mut_TemporalAction_update(w, a, delta) ==
    LET w1 == [w EXCEPT !.acts[a].time = @ + delta]
        p == Norm(w1.acts[a].time, w1.acts[a].duration)
    IN  [w |-> w1, ret |-> RGeq(R(1), p)]

\* TemporalAction.update
TemporalAction_update(w, a, delta) ==
    LET w1 == [w EXCEPT !.acts[a].time = @ + delta]
    IN  IF RGeq(TemporalAction_percent(w1, a), R(1))
        THEN [w |-> w1, ret |-> FALSE]
        ELSE [w |-> w1, ret |-> TRUE]

\* MoveTo.init without the guard _dest_init: the origin of the parent is
\* added at every init.
Mut_MoveTo_init(w, a, wid) ==
    LET w1 == TemporalAction_init(w, a, wid)
        w2 == [w1 EXCEPT !.acts[a].x_src = w1.shape[wid].x,
                         !.acts[a].y_src = w1.shape[wid].y]
    IN  IF parent[wid] # None
        THEN [w2 EXCEPT !.acts[a].dest_init = TRUE,
                        !.acts[a].x_dest = RAdd(@, w2.shape[parent[wid]].x),
                        !.acts[a].y_dest = RAdd(@, w2.shape[parent[wid]].y)]
        ELSE w2

\* MoveTo.init
MoveTo_init(w, a, wid) ==
    LET w1 == TemporalAction_init(w, a, wid)
        w2 == [w1 EXCEPT !.acts[a].x_src = w1.shape[wid].x,
                         !.acts[a].y_src = w1.shape[wid].y]
    IN  IF parent[wid] # None /\ ~w2.acts[a].dest_init
        THEN [w2 EXCEPT !.acts[a].dest_init = TRUE,
                        !.acts[a].x_dest = RAdd(@, w2.shape[parent[wid]].x),
                        !.acts[a].y_dest = RAdd(@, w2.shape[parent[wid]].y)]
        ELSE w2

\* MoveTo.update writing the widget before the test percent >= 1.
Mut_MoveTo_update(w, a, delta) ==
    LET w1 == TemporalAction_update(w, a, delta).w
        o == w1.acts[a]
        percent == TemporalAction_percent(w1, a)
        p == Linear_apply(percent)
        x_current == RAdd(o.x_src, RMul(RSub(o.x_dest, o.x_src), p))
        y_current == RAdd(o.y_src, RMul(RSub(o.y_dest, o.y_src), p))
    IN  [w |-> [w1 EXCEPT !.shape[o.widget].x = x_current,
                          !.shape[o.widget].y = y_current],
         ret |-> ~RGeq(percent, R(1))]

\* MoveTo.update
MoveTo_update(w, a, delta) ==
    LET w1 == TemporalAction_update(w, a, delta).w
        o == w1.acts[a]
        percent == TemporalAction_percent(w1, a)
    IN  IF RGeq(percent, R(1))
        THEN [w |-> w1, ret |-> FALSE]
        ELSE LET p == Linear_apply(percent)
                 x_current == RAdd(o.x_src, RMul(RSub(o.x_dest, o.x_src), p))
                 y_current == RAdd(o.y_src, RMul(RSub(o.y_dest, o.y_src), p))
             IN  [w |-> [w1 EXCEPT !.shape[o.widget].x = x_current,
                                   !.shape[o.widget].y = y_current],
                  ret |-> TRUE]

\* MoveBy.init
MoveBy_init(w, a, wid) ==
    [TemporalAction_init(w, a, wid) EXCEPT !.acts[a].x_prev = R(0),
                                           !.acts[a].y_prev = R(0)]

\* MoveBy._compute_move: the new world and the step (x_res, y_res).
MoveBy_compute_move(w, a, percent) ==
    LET o == w.acts[a]
        x_diff == RMul(o.x_width, percent)
        y_diff == RMul(o.y_width, percent)
    IN  [w |-> [w EXCEPT !.acts[a].x_prev = x_diff, !.acts[a].y_prev = y_diff],
         x_res |-> RSub(x_diff, o.x_prev),
         y_res |-> RSub(y_diff, o.y_prev)]

\* MoveBy.update
MoveBy_update(w, a, delta) ==
    LET w1 == TemporalAction_update(w, a, delta).w
        percent == TemporalAction_percent(w1, a)
    IN  IF RGeq(percent, R(1))
        THEN [w |-> w1, ret |-> FALSE]
        ELSE LET m == MoveBy_compute_move(w1, a, Linear_apply(percent))
                 wid == w1.acts[a].widget
             IN  [w |-> [m.w EXCEPT !.shape[wid].x = RAdd(@, m.x_res),
                                    !.shape[wid].y = RAdd(@, m.y_res)],
                  ret |-> TRUE]

\* FadeIn.init, FadeOut.init, FadeTo.init
Fade_init(w, a, wid) ==
    [TemporalAction_init(w, a, wid)
        EXCEPT !.acts[a].fade_src = Widget_alpha(parent, w.color, wid)]

\* FadeIn.update
FadeIn_update(w, a, delta) ==
    LET w1 == TemporalAction_update(w, a, delta).w
        o == w1.acts[a]
        percent == TemporalAction_percent(w1, a)
    IN  IF RGeq(percent, R(1))
        THEN [w |-> w1, ret |-> FALSE]
        ELSE LET p == Linear_apply(percent)
                 v == RAdd(o.fade_src, RMul(RSub(R(1), o.fade_src), p))
             IN  [w |-> [w1 EXCEPT !.color =
                                     Widget_set_alpha(w1.color, o.widget, v)],
                  ret |-> TRUE]

\* FadeOut.update
FadeOut_update(w, a, delta) ==
    LET w1 == TemporalAction_update(w, a, delta).w
        o == w1.acts[a]
        percent == TemporalAction_percent(w1, a)
    IN  IF RGeq(percent, R(1))
        THEN [w |-> w1, ret |-> FALSE]
        ELSE LET p == Linear_apply(percent)
                 v == RSub(o.fade_src, RMul(o.fade_src, p))
             IN  [w |-> [w1 EXCEPT !.color =
                                     Widget_set_alpha(w1.color, o.widget, v)],
                  ret |-> TRUE]

\* FadeTo.update
FadeTo_update(w, a, delta) ==
    LET w1 == TemporalAction_update(w, a, delta).w
        o == w1.acts[a]
        percent == TemporalAction_percent(w1, a)
    IN  IF RGeq(percent, R(1))
        THEN [w |-> w1, ret |-> FALSE]
        ELSE LET p == Linear_apply(percent)
                 v == RAdd(o.fade_src, RMul(RSub(o.fade_dst, o.fade_src), p))
             IN  [w |-> [w1 EXCEPT !.color =
                                     Widget_set_alpha(w1.color, o.widget, v)],
                  ret |-> TRUE]

RECURSIVE ActionInit(_, _, _), ActionUpdate(_, _, _)

\* Composite.init
Composite_init(w, a, wid) ==
    [Action_init(w, a, wid) EXCEPT !.acts[a].actions = w.acts[a].actions_src]

\* Sequence.next_action taking the last action of the list, pop().
Mut_Sequence_next_action(w, a) ==
    LET o == w.acts[a]
        n == Len(o.actions)
    IN  IF o.actions = <<>>
        THEN [w |-> w, ret |-> FALSE]
        ELSE LET w1 == [w EXCEPT !.acts[a].current_action = o.actions[n],
                                 !.acts[a].actions = SubSeq(o.actions, 1, n - 1)]
             IN  [w |-> ActionInit(w1, o.actions[n], o.widget), ret |-> TRUE]

\* Sequence.next_action: pop(0) of an empty list raises IndexError, caught.
Sequence_next_action(w, a) ==
    LET o == w.acts[a]
    IN  IF o.actions = <<>>
        THEN [w |-> w, ret |-> FALSE]
        ELSE LET w1 == [w EXCEPT !.acts[a].current_action = Head(o.actions),
                                 !.acts[a].actions = Tail(o.actions)]
             IN  [w |-> ActionInit(w1, Head(o.actions), o.widget),
                  ret |-> TRUE]

\* Sequence.update
Sequence_update(w, a, delta) ==
    LET first == IF w.acts[a].current_action = None
                 THEN Sequence_next_action(w, a)
                 ELSE [w |-> w, ret |-> TRUE]
    IN  IF ~first.ret
        THEN [w |-> first.w, ret |-> FALSE]
        ELSE LET u == ActionUpdate(first.w, first.w.acts[a].current_action,
                                   delta)
             IN  IF u.ret
                 THEN [w |-> u.w, ret |-> TRUE]
                 ELSE Sequence_next_action(u.w, a)

\* Parallel.init
Parallel_init(w, a, wid) ==
    LET lst == w.acts[a].actions_src
        step[i \in 0..Len(lst)] ==
            IF i = 0 THEN Composite_init(w, a, wid)
            ELSE Only({ActionInit(prev, prev.acts[a].actions[i], wid) :
                          prev \in {step[i - 1]}})
    IN  step[Len(lst)]

\* Parallel.update keeping every action of the list, finished or not.
Mut_Parallel_update(w, a, delta) ==
    LET lst == w.acts[a].actions
        step[i \in 0..Len(lst)] ==
            IF i = 0 THEN [w |-> w, keep |-> <<>>]
            ELSE Only({Only({[w |-> u.w,
                              keep |-> IF u.ret THEN Append(prev.keep, lst[i])
                                       ELSE prev.keep] :
                                u \in {ActionUpdate(prev.w, lst[i], delta)}}) :
                          prev \in {step[i - 1]}})
    IN  Only({[w |-> out.w, ret |-> out.keep # <<>>] :
                 out \in {step[Len(lst)]}})

\* Parallel.update: the list comprehension calls update on every action of
\* the list, in order, and keeps those that returned true.
Parallel_update(w, a, delta) ==
    LET lst == w.acts[a].actions
        step[i \in 0..Len(lst)] ==
            IF i = 0 THEN [w |-> w, keep |-> <<>>]
            ELSE Only({Only({[w |-> u.w,
                              keep |-> IF u.ret THEN Append(prev.keep, lst[i])
                                       ELSE prev.keep] :
                                u \in {ActionUpdate(prev.w, lst[i], delta)}}) :
                          prev \in {step[i - 1]}})
    IN  Only({[w |-> [out.w EXCEPT !.acts[a].actions = out.keep],
               ret |-> out.keep # <<>>] : out \in {step[Len(lst)]}})

\* Repeat.init
Repeat_init(w, a, wid) ==
    ActionInit(Action_init(w, a, wid), w.acts[a].action, wid)

\* Repeat.restart_action
Repeat_restart_action(w, a) ==
    ActionInit(w, w.acts[a].action, w.acts[a].widget)

\* Repeat.update counting the cycle before it compares with count.
Mut_Repeat_update(w, a, delta) ==
    LET u == ActionUpdate(w, w.acts[a].action, delta)
        w1 == [u.w EXCEPT !.acts[a].current_count = @ + 1]
    IN  IF u.ret
        THEN [w |-> u.w, ret |-> TRUE]
        ELSE IF w1.acts[a].current_count = w1.acts[a].count
        THEN [w |-> w1, ret |-> FALSE]
        ELSE [w |-> ActionInit(w1, w1.acts[a].action, w1.acts[a].widget),
              ret |-> TRUE]

\* Repeat.update
Repeat_update(w, a, delta) ==
    LET u == ActionUpdate(w, w.acts[a].action, delta)
    IN  IF u.ret
        THEN [w |-> u.w, ret |-> TRUE]
        ELSE IF u.w.acts[a].current_count = u.w.acts[a].count
        THEN [w |-> u.w, ret |-> FALSE]
        ELSE LET w1 == [u.w EXCEPT !.acts[a].current_count = @ + 1]
             IN  [w |-> Repeat_restart_action(w1, a), ret |-> TRUE]

\* action.init(widget), dispatched on the class of the action.
ActionInit(w, a, wid) ==
    LET w0 == [w EXCEPT !.trace = Append(@, <<"init", a>>)]
        k == w.acts[a].kind
    IN  CASE k = "TemporalAction" -> TemporalAction_init(w0, a, wid)
          [] k = "MoveTo" -> MoveTo_init(w0, a, wid)
          [] k = "MoveBy" -> MoveBy_init(w0, a, wid)
          [] k \in {"FadeIn", "FadeOut", "FadeTo"} -> Fade_init(w0, a, wid)
          [] k = "Sequence" -> Composite_init(w0, a, wid)
          [] k = "Parallel" -> Parallel_init(w0, a, wid)
          [] k = "Repeat" -> Repeat_init(w0, a, wid)

\* action.update(delta), dispatched on the class of the action.
ActionUpdate(w, a, delta) ==
    LET w0 == [w EXCEPT !.trace = Append(@, <<"update", a>>)]
        k == w.acts[a].kind
    IN  CASE k = "TemporalAction" -> TemporalAction_update(w0, a, delta)
          [] k = "MoveTo" -> MoveTo_update(w0, a, delta)
          [] k = "MoveBy" -> MoveBy_update(w0, a, delta)
          [] k = "FadeIn" -> FadeIn_update(w0, a, delta)
          [] k = "FadeOut" -> FadeOut_update(w0, a, delta)
          [] k = "FadeTo" -> FadeTo_update(w0, a, delta)
          [] k = "Sequence" -> Sequence_update(w0, a, delta)
          [] k = "Parallel" -> Parallel_update(w0, a, delta)
          [] k = "Repeat" -> Repeat_update(w0, a, delta)

\* ------------------------------------------------------- constructors
\* TemporalAction.__init__
New_TemporalAction(duration) ==
    [kind |-> "TemporalAction", widget |-> None, duration |-> duration,
     time |-> 0]

\* MoveTo.__init__
New_MoveTo(x, y, duration) ==
    [kind |-> "MoveTo", widget |-> None, duration |-> duration, time |-> 0,
     x_src |-> R(0), y_src |-> R(0), x_dest |-> x, y_dest |-> y,
     dest_init |-> FALSE]

\* MoveBy.__init__
New_MoveBy(x, y, duration) ==
    [kind |-> "MoveBy", widget |-> None, duration |-> duration, time |-> 0,
     x_width |-> x, y_width |-> y, x_prev |-> R(0), y_prev |-> R(0)]

\* FadeIn.__init__
New_FadeIn(duration) ==
    [kind |-> "FadeIn", widget |-> None, duration |-> duration, time |-> 0,
     fade_src |-> R(0)]

\* FadeOut.__init__
New_FadeOut(duration) ==
    [kind |-> "FadeOut", widget |-> None, duration |-> duration, time |-> 0,
     fade_src |-> R(0)]

\* FadeTo.__init__
New_FadeTo(fade, duration) ==
    [kind |-> "FadeTo", widget |-> None, duration |-> duration, time |-> 0,
     fade_src |-> R(0), fade_dst |-> fade]

\* Sequence.__init__ (and Composite.__init__)
New_Sequence(actions) ==
    [kind |-> "Sequence", widget |-> None, actions_src |-> actions,
     actions |-> NoList, current_action |-> None]

\* Parallel.__init__ (Composite.__init__)
New_Parallel(actions) ==
    [kind |-> "Parallel", widget |-> None, actions_src |-> actions,
     actions |-> NoList]

\* Repeat.__init__
New_Repeat(action, count) ==
    [kind |-> "Repeat", widget |-> None, action |-> action, count |-> count,
     current_count |-> 1]

\* ------------------------------------------- the actions of a widget
(***************************************************************************)
(* The methods of Widget that handle actions are operators on a world with *)
(* one more field, actions: widget -> the list Widget.actions.  They log   *)
(* in trace, besides the init and update calls of the actions,             *)
(*   <<"Widget.update", widget>>        at the start of Widget.update,     *)
(*   <<"call", widget, action, ret>>    after each action.update(delta) of *)
(*                                      the loop of Widget.update.         *)
(***************************************************************************)
\* The methods an action object of class k has.
ActionMethods(k) ==
    {"__init__", "init"}
        \cup (IF k = "Action" THEN {} ELSE {"update"})
        \cup (IF k \in TemporalKinds THEN {"percent"} ELSE {})
        \cup (IF k = "MoveBy" THEN {"_compute_move"} ELSE {})
        \cup (IF k = "Sequence" THEN {"next_action"} ELSE {})
        \cup (IF k = "Repeat" THEN {"restart_action"} ELSE {})

\* Widget.add_action taking the action away from the widget it was bound to.
Mut_Widget_add_action(w, wid, a) ==
    LET old == w.acts[a].widget
        w1 == IF old # None
              THEN [w EXCEPT !.actions[old] = ListRemove(@, a)]
              ELSE w
    IN  [ActionInit(w1, a, wid) EXCEPT !.actions[wid] = Append(@, a)]

\* Widget.add_action
Widget_add_action(w, wid, a) ==
    [ActionInit(w, a, wid) EXCEPT !.actions[wid] = Append(@, a)]

\* Widget.remove_action: [w, raised], the new world and the exception the
\* call raised ("": none).  action.unset_widget() is a method no class of
\* actions has: the call raises AttributeError before the remove.
Widget_remove_action(w, wid, a) ==
    IF a \in Range(w.actions[wid])
    THEN IF "unset_widget" \in ActionMethods(w.acts[a].kind)
         THEN [w |-> [w EXCEPT !.acts[a].widget = None,
                               !.actions[wid] = ListRemove(@, a)],
               raised |-> ""]
         ELSE [w |-> w, raised |-> "AttributeError"]
    ELSE [w |-> w, raised |-> ""]

\* The first loop of Widget.update: [w, remove_actions].
Widget_update_actions(w, wid, delta) ==
    LET lst == w.actions[wid]
        pass[i \in 0..Len(lst)] ==
            IF i = 0 THEN [w |-> w, remove_actions |-> <<>>]
            ELSE Only({Only({[w |-> [u.w EXCEPT !.trace =
                                  Append(@, <<"call", wid, lst[i], u.ret>>)],
                              remove_actions |->
                                  IF ~u.ret
                                  THEN Append(prev.remove_actions, lst[i])
                                  ELSE prev.remove_actions] :
                                u \in {ActionUpdate(prev.w, lst[i], delta)}}) :
                          prev \in {pass[i - 1]}})
    IN  pass[Len(lst)]

\* The second loop of Widget.update keeping the finished actions.
Mut_Widget_update_remove(w, wid, remove_actions) == w

\* The second loop of Widget.update: self.actions.remove(action) for every
\* action of remove_actions.
Widget_update_remove(w, wid, remove_actions) ==
    LET step[j \in 0..Len(remove_actions)] ==
            IF j = 0 THEN w.actions[wid]
            ELSE ListRemove(step[j - 1], remove_actions[j])
    IN  [w EXCEPT !.actions[wid] = step[Len(remove_actions)]]

\* Widget.update
RECURSIVE Widget_update(_, _, _)
Widget_update(w, wid, delta) ==
    LET kids == children[wid]
        rec[i \in 0..Len(kids)] ==
            IF i = 0
            THEN Only({Widget_update_remove(p.w, wid, p.remove_actions) :
                          p \in {Widget_update_actions(
                                     [w EXCEPT !.trace =
                                         Append(@, <<"Widget.update", wid>>)],
                                     wid, delta)}})
            ELSE Only({Widget_update(prev, kids[i], delta) :
                          prev \in {rec[i - 1]}})
    IN  rec[Len(kids)]

\* Scene.update calling update on the scene too.
Mut_Scene_update(w, delta) ==
    LET widgets == <<1>> \o Widget_collect_children(children, 1).result
        step[i \in 0..Len(widgets)] ==
            IF i = 0 THEN w
            ELSE Only({Widget_update(prev, widgets[i], delta) :
                          prev \in {step[i - 1]}})
    IN  step[Len(widgets)]

\* Scene.update
Scene_update(w, delta) ==
    LET widgets == Widget_collect_children(children, 1).result
        step[i \in 0..Len(widgets)] ==
            IF i = 0 THEN w
            ELSE Only({Widget_update(prev, widgets[i], delta) :
                          prev \in {step[i - 1]}})
    IN  step[Len(widgets)]

\* ------------------------------------- a run of the action engine
(***************************************************************************)
(* The caller builds one action, a temporal action, a Sequence of temporal *)
(* actions, or a Repeat of either, and drives it on widget Target, a       *)
(* grandchild of the scene: init, then update calls with deltas of its     *)
(* choice.  hist records what the caller did since the last init:          *)
(*   inits  init calls so far,  n  update calls since the last init,       *)
(*   rets   their return values,  dt  the first delta,                     *)
(*   fixed  whether every delta was dt,  total  the sum of the deltas,     *)
(*   x0, y0  the position of Target at the last init.                      *)
(***************************************************************************)
Target == 3

\* The temporal action of class k the runs use, with duration d.
Leaf(k, d) ==
    CASE k = "TemporalAction" -> New_TemporalAction(d)
      [] k = "MoveTo" -> New_MoveTo(R(5), R(7), d)
      [] k = "MoveBy" -> New_MoveBy(R(10), R(0), d)
      [] k = "FadeIn" -> New_FadeIn(d)
      [] k = "FadeOut" -> New_FadeOut(d)
      [] k = "FadeTo" -> New_FadeTo(<<1, 4>>, d)

Durations == 1..MaxDuration
Deltas == 1..MaxDelta

\* The classes of the children of a Sequence in the runs.
ChildKinds == {"TemporalAction", "MoveBy"}

\* The heaps the caller builds, each with the action it drives (the last
\* one built).
Programs ==
    LET leaves(n, kinds) ==
            [1..n -> {Leaf(k, d) : k \in kinds, d \in Durations}]
        sequences ==
            UNION {{ls \o <<New_Sequence([i \in 1..n |-> i])>> :
                        ls \in leaves(n, ChildKinds)} : n \in 1..NumLeaves}
        parallels ==
            UNION {{ls \o <<New_Parallel([i \in 1..n |-> i])>> :
                        ls \in leaves(n, ChildKinds)} : n \in 0..NumLeaves}
        inner == leaves(1, TemporalKinds) \cup sequences
    IN  inner \cup parallels \cup
        {p \o <<New_Repeat(Len(p), c)>> : p \in inner, c \in 0..MaxCount}

NoHist ==
    [inits |-> 0, n |-> 0, rets |-> <<>>, dt |-> 0, fixed |-> TRUE,
     total |-> 0, x0 |-> R(0), y0 |-> R(0)]

World == [acts |-> acts, shape |-> shape, color |-> color, trace |-> <<>>]

\* The state a run of the action engine starts in: a scene, a panel placed
\* in it and Target placed in the panel; the action built, not yet initialised.
InitAct ==
    /\ parent = <<None, 1, 2>>
    /\ children = << <<2>>, <<3>>, <<>> >>
    /\ shape = << Rectangle(R(0), R(0), R(100), R(100)),
                  Rectangle(R(10), R(20), R(50), R(50)),
                  Rectangle(R(11), R(22), R(8), R(8)) >>
    /\ color = << <<R(1), R(1), R(1), R(1)>>,
                  <<R(1), R(1), R(1), <<1, 2>> >>,
                  <<R(1), R(1), R(1), <<1, 2>> >> >>
    /\ children_grid = [w \in 1..3 |-> <<>>]
    /\ columns = [w \in 1..3 |-> 1]
    /\ rows = [w \in 1..3 |-> 1]
    /\ acts \in Programs
    /\ root = Len(acts)
    /\ trace = <<>>
    /\ hist = NoHist
    /\ widget_actions = [w \in 1..3 |-> <<>>]
    /\ wclass = <<Scene, Image, Image>>
    /\ theme = <<>>
    /\ renderers = Scene_renderers(theme)
    /\ rs = NoRender
    /\ AppIdle
    /\ ghost = <<>>

\* The caller initialises the action on Target (what add_action does first).
ActInit ==
    /\ hist.inits = 0
    /\ LET w == ActionInit(World, root, Target)
       IN  /\ acts' = w.acts
           /\ shape' = w.shape
           /\ color' = w.color
           /\ trace' = w.trace
           /\ hist' = [NoHist EXCEPT !.inits = hist.inits + 1,
                                     !.x0 = shape[Target].x,
                                     !.y0 = shape[Target].y]
    /\ UNCHANGED <<parent, children, children_grid, columns, rows, root,
                   widget_actions, sceneVars, appVars, rs, ghost>>

\* The caller calls update(delta) on the action, as long as no update
\* returned false (Widget.update drops an action on its first false).
ActUpdate(delta) ==
    /\ hist.inits >= 1
    /\ hist.n < MaxCalls
    /\ \A i \in 1..Len(hist.rets) : hist.rets[i]
    /\ LET u == ActionUpdate(World, root, delta)
       IN  /\ acts' = u.w.acts
           /\ shape' = u.w.shape
           /\ color' = u.w.color
           /\ trace' = u.w.trace
           /\ hist' = [hist EXCEPT !.n = @ + 1,
                                   !.rets = Append(@, u.ret),
                                   !.dt = IF hist.n = 0 THEN delta ELSE @,
                                   !.fixed = @ /\ (hist.n = 0 \/ delta = hist.dt),
                                   !.total = @ + delta]
    /\ UNCHANGED <<parent, children, children_grid, columns, rows, root,
                   widget_actions, sceneVars, appVars, rs, ghost>>

NextAct == ActInit \/ \E delta \in Deltas : ActUpdate(delta)

SpecAct == InitAct /\ [][NextAct]_vars

\* ---------------------------------------- claims on the action engine
RootKind == acts[root].kind
LastRet == hist.rets[Len(hist.rets)]
\* The caller used one delta throughout, and it divides d.
FixedDividing(d) == hist.n >= 1 /\ hist.fixed /\ d % hist.dt = 0

RECURSIVE SumDuration(_)
\* The sum of the durations of the temporal actions in the list ids.
SumDuration(ids) ==
    IF ids = <<>> THEN 0
    ELSE acts[Head(ids)].duration + SumDuration(Tail(ids))

\* The actions other than root whose update, respectively init, was called
\* by the last call on root, in call order.
CallsOf(method) ==
    LET idx == {i \in 1..Len(trace) :
                    trace[i][1] = method /\ trace[i][2] # root}
        pick[i \in 0..Len(trace)] ==
            IF i = 0 THEN <<>>
            ELSE IF i \in idx THEN Append(pick[i - 1], trace[i][2])
            ELSE pick[i - 1]
    IN  pick[Len(trace)]

\* C1: a temporal action of any class with duration D, initialised once and
\* updated with a fixed delta dividing D, returns true on every update before
\* the cumulative time reaches D and false on the update that reaches it.
C1_TemporalReturn ==
    (RootKind \in TemporalKinds /\ FixedDividing(acts[root].duration)) =>
        \A i \in 1..hist.n :
            hist.rets[i] <=> (i * hist.dt < acts[root].duration)

\* C1 witness: a MoveTo of duration 2 driven by two updates of 1, the second
\* returning false.
C1_Witness ==
    /\ RootKind = "MoveTo"
    /\ acts[root].duration = 2
    /\ hist.fixed /\ hist.dt = 1
    /\ hist.rets = <<TRUE, FALSE>>

\* C2 as claimed: once the deltas of a MoveBy(x, y, D) sum to exactly D, the
\* widget has moved by exactly (x, y) since init.
C2_MoveByTotal ==
    (RootKind = "MoveBy" /\ hist.n >= 1 /\ hist.total = acts[root].duration) =>
        /\ RSub(shape[Target].x, hist.x0) = acts[root].x_width
        /\ RSub(shape[Target].y, hist.y0) = acts[root].y_width

\* C3: a fresh Sequence of temporal actions runs them one at a time in list
\* order.  Every update call advances exactly one child, the first one in
\* list order that has not finished; the children before it have finished
\* and those after it have not been advanced.  On the call that finishes a
\* child the next one is initialised, and not advanced, and the call returns
\* true; on the call that finishes the last child it returns false.  With a
\* fixed delta dividing every duration the calls return true until the
\* cumulative time reaches the sum of the durations.
C3_SequenceOrder ==
    (RootKind = "Sequence" /\ hist.n >= 1) =>
        LET kids == acts[root].actions_src
            m == Len(kids)
            done(j) == acts[kids[j]].time >= acts[kids[j]].duration
            ups == CallsOf("update")
            inits == CallsOf("init")
        IN  /\ Len(ups) = 1
            /\ \E k \in 1..m :
                /\ ups = <<kids[k]>>
                /\ \A j \in 1..(k - 1) : done(j)
                /\ \A j \in (k + 1)..m : acts[kids[j]].time = 0
                /\ inits = (IF hist.n = 1 /\ k = 1 THEN <<kids[1]>> ELSE <<>>)
                           \o (IF done(k) /\ k < m THEN <<kids[k + 1]>>
                               ELSE <<>>)
                /\ acts[root].current_action =
                       (IF done(k) /\ k < m THEN kids[k + 1] ELSE kids[k])
                /\ LastRet <=> ~(done(k) /\ k = m)
            /\ (hist.fixed /\ \A j \in 1..m : acts[kids[j]].duration % hist.dt = 0)
                   => \A i \in 1..hist.n :
                          hist.rets[i] <=> (i * hist.dt < SumDuration(kids))

\* C3 witness: Sequence([a, b]), both of duration 2, after four updates of 1:
\* the last one returned false.
C3_Witness ==
    /\ RootKind = "Sequence"
    /\ Len(acts[root].actions_src) = 2
    /\ \A j \in 1..2 : acts[j].duration = 2
    /\ hist.fixed /\ hist.dt = 1
    /\ hist.rets = <<TRUE, TRUE, TRUE, FALSE>>

\* C4: a fresh Repeat(action, count = N) of a temporal action of duration D,
\* driven with a fixed delta dividing D, returns true on every update before
\* the one that completes the N-th cycle and false on that one; it
\* re-initialises the action on the update that completes each of the first
\* N - 1 cycles, and on no other.  With count = 0 no update returns false.
C4_RepeatCount ==
    (RootKind = "Repeat" /\ acts[acts[root].action].kind \in TemporalKinds
         /\ hist.n >= 1) =>
        LET inner == acts[root].action
            d == acts[inner].duration
            count == acts[root].count
            t == hist.n * hist.dt
        IN  /\ count = 0 => \A i \in 1..hist.n : hist.rets[i]
            /\ (count >= 1 /\ FixedDividing(d)) =>
                /\ \A i \in 1..hist.n :
                       hist.rets[i] <=> (i * hist.dt < count * d)
                /\ CallsOf("update") = <<inner>>
                /\ CallsOf("init") =
                       (IF t % d = 0 /\ t < count * d THEN <<inner>>
                        ELSE <<>>)
                /\ (t % d = 0 /\ t < count * d) => acts[inner].time = 0

\* C4 witness: Repeat(action, count = 2) of an action of duration 2, after
\* four updates of 1: the last one returned false.
C4_Witness ==
    /\ RootKind = "Repeat"
    /\ acts[acts[root].action].kind = "MoveBy"
    /\ acts[root].count = 2
    /\ acts[acts[root].action].duration = 2
    /\ hist.fixed /\ hist.dt = 1
    /\ hist.rets = <<TRUE, TRUE, TRUE, FALSE>>

\* The classes that write the widget in update.
WritingKinds == {"MoveTo", "MoveBy", "FadeIn", "FadeOut", "FadeTo"}

C20_MoveTo ==
    \A a \in 1..Len(acts) :
        (acts[a].kind = "MoveTo" /\ acts[a].widget # None) =>
            LET o == acts[a]
                wid == o.widget
                p == Linear_apply(TemporalAction_percent(World, a))
            IN  /\ o.x_dest = RAdd(Leaf("MoveTo", 1).x_dest,
                                   shape[parent[wid]].x)
                /\ o.y_dest = RAdd(Leaf("MoveTo", 1).y_dest,
                                   shape[parent[wid]].y)
                /\ o.time = 0 =>
                       /\ o.x_src = shape[wid].x
                       /\ o.y_src = shape[wid].y
                /\ (0 < o.time /\ o.time < o.duration) =>
                       /\ shape[wid].x
                              = RAdd(o.x_src, RMul(RSub(o.x_dest, o.x_src), p))
                       /\ shape[wid].y
                              = RAdd(o.y_src, RMul(RSub(o.y_dest, o.y_src), p))

\* C20 witness: Repeat(MoveTo(5, 7, 2)) on a widget at x = 11 whose parent is
\* at x = 10, after three updates of 1: the second one re-initialised the
\* MoveTo at x = 13, the destination is still x = 15, the widget is at 14.
C20_Witness ==
    /\ RootKind = "Repeat"
    /\ acts[acts[root].action].kind = "MoveTo"
    /\ hist.rets = <<TRUE, TRUE, TRUE>>
    /\ hist.fixed /\ hist.dt = 1
    /\ acts[acts[root].action].x_src = R(13)
    /\ acts[acts[root].action].x_dest = R(15)
    /\ shape[Target].x = R(14)

\* C21 as claimed: after a non-terminating update of a FadeIn, FadeOut or
\* FadeTo(target), the alpha of the widget, read through the property alpha,
\* is src + (goal - src) * interpolation(time / duration), src the alpha read
\* through the property at init and goal 1, 0 or target; it lies between src
\* and goal.
C21_FadeAlpha ==
    (RootKind \in {"FadeIn", "FadeOut", "FadeTo"} /\ hist.n >= 1 /\ LastRet) =>
        LET o == acts[root]
            p == Linear_apply(TemporalAction_percent(World, root))
            goal == CASE RootKind = "FadeIn" -> R(1)
                      [] RootKind = "FadeOut" -> R(0)
                      [] RootKind = "FadeTo" -> o.fade_dst
            alpha == Widget_alpha(parent, color, Target)
        IN  /\ alpha = RAdd(o.fade_src, RMul(RSub(goal, o.fade_src), p))
            /\ \/ RGeq(alpha, o.fade_src) /\ RGeq(goal, alpha)
               \/ RGeq(o.fade_src, alpha) /\ RGeq(alpha, goal)

SetMax(S) == CHOOSE x \in S : \A y \in S : y <= x

\* ------------------------------------------------- a run of the grid
(***************************************************************************)
(* A scene, a panel placed in it, and NumKids widgets built with the panel *)
(* as parent.  The widgets call grid(column, row), any of them any number  *)
(* of times.  ghost records the largest column and the largest row ever    *)
(* asked for (-1: none).                                                   *)
(***************************************************************************)
Panel == 2
Kids == 3..(2 + NumKids)
GridCells == {cell \in (0..MaxIdx) \X (0..MaxIdx) : cell[1] + cell[2] <= MaxIdx}

\* The place(width, height, x, y) calls that put the panel in the scene.
PanelPlaces ==
    {<<R(100), R(100), R(10), R(20)>>, <<R(60), R(30), R(0), R(0)>>}

InitGrid ==
    /\ parent = [w \in 1..(2 + NumKids) |->
                    IF w = 1 THEN None ELSE IF w = Panel THEN 1 ELSE Panel]
    /\ color = [w \in 1..(2 + NumKids) |-> <<R(1), R(1), R(1), R(1)>>]
    /\ \E g \in PanelPlaces :
        LET t0 == [children |-> [w \in 1..(2 + NumKids) |-> <<>>],
                   children_grid |-> [w \in 1..(2 + NumKids) |-> <<>>],
                   columns |-> [w \in 1..(2 + NumKids) |-> 1],
                   rows |-> [w \in 1..(2 + NumKids) |-> 1],
                   shape |-> [w \in 1..(2 + NumKids) |->
                                 IF w = 1
                                 THEN Rectangle(R(0), R(0), R(200), R(200))
                                 ELSE Rectangle(R(0), R(0), R(0), R(0))]]
            t == Widget_place(t0, Panel, g[1], g[2], g[3], g[4])
        IN  /\ children = t.children
            /\ children_grid = t.children_grid
            /\ columns = t.columns
            /\ rows = t.rows
            /\ shape = t.shape
    /\ acts = <<>>
    /\ root = None
    /\ trace = <<>>
    /\ hist = NoHist
    /\ widget_actions = [w \in 1..(2 + NumKids) |-> <<>>]
    /\ wclass = [w \in 1..(2 + NumKids) |-> IF w = 1 THEN Scene ELSE Image]
    /\ theme = <<>>
    /\ renderers = Scene_renderers(theme)
    /\ rs = NoRender
    /\ AppIdle
    /\ ghost = [maxcol |-> -1, maxrow |-> -1]

\* w.grid(column, row)
Grid(w, column, row) ==
    /\ Len(children[parent[w]]) < MaxChildren
    /\ SetTree(Widget_grid(Tree, w, column, row))
    /\ ghost' = [maxcol |-> SetMax({ghost.maxcol, column}),
                 maxrow |-> SetMax({ghost.maxrow, row})]
    /\ UNCHANGED <<parent, color, actVars, sceneVars, appVars, rs>>

NextGrid == \E w \in Kids, cell \in GridCells : Grid(w, cell[1], cell[2])

SpecGrid == InitGrid /\ [][NextGrid]_vars

\* ------------------------------------------------- claims on the grid

\* The rectangle of cell (c, r) of widget p, from p's shape and extents.
CellRectangle(p, c, r) ==
    Rectangle(RAdd(shape[p].x, Norm(c * shape[p].width[1],
                                    columns[p] * shape[p].width[2])),
              RAdd(shape[p].y, Norm(r * shape[p].height[1],
                                    rows[p] * shape[p].height[2])),
              Norm(shape[p].width[1], columns[p] * shape[p].width[2]),
              Norm(shape[p].height[1], rows[p] * shape[p].height[2]))

\* C5: after any sequence of grid calls on a parent whose shape does not
\* change, columns = max(1, 1 + largest column asked for), rows likewise,
\* and every widget in children_grid has the rectangle of its cell:
\* x = px + c * W / columns, y = py + r * H / rows, W / columns wide and
\* H / rows high.
C5_GridLayout ==
    /\ columns[Panel] = SetMax({1, 1 + ghost.maxcol})
    /\ rows[Panel] = SetMax({1, 1 + ghost.maxrow})
    /\ \A i \in 1..Len(children_grid[Panel]) :
           LET e == children_grid[Panel][i]
           IN  shape[e.w] = CellRectangle(Panel, e.cell[1], e.cell[2])

\* C5 witness: widgets at (1,0) and (0,1) of a 100 x 100 parent at (10, 20):
\* 2 columns, 2 rows, cells of 50 x 50 at (60, 20) and (10, 70).
C5_Witness ==
    /\ shape[Panel] = Rectangle(R(10), R(20), R(100), R(100))
    /\ children_grid[Panel] = <<[w |-> 3, cell |-> <<1, 0>>],
                                [w |-> 4, cell |-> <<0, 1>>]>>
    /\ columns[Panel] = 2 /\ rows[Panel] = 2
    /\ shape[3] = Rectangle(R(60), R(20), R(50), R(50))
    /\ shape[4] = Rectangle(R(10), R(70), R(50), R(50))

\* C6 as claimed, the invariant: no two widgets of children_grid are at the
\* same cell.
C6_CellUnique ==
    \A i, j \in 1..Len(children_grid[Panel]) :
        children_grid[Panel][i].cell = children_grid[Panel][j].cell => i = j

\* C6 as claimed, the eviction: when a widget w asks for the cell another
\* widget e has in children_grid, after the call e is in neither children nor
\* children_grid of the parent.
C6_Eviction ==
    [][\A w \in Kids, cell \in GridCells :
         LET e == Widget_existing_child(Tree, Panel, cell[1], cell[2])
         IN  (Grid(w, cell[1], cell[2]) /\ e # None /\ e # w) =>
                 /\ e \notin DictKeys(children_grid'[Panel])
                 /\ e \notin Range(children'[Panel])]_vars

\* ------------------------------------------------- a run of the tree
(***************************************************************************)
(* NumWidgets widgets: the scene, widget 1, and widgets built with an      *)
(* earlier widget as parent.  Each attaches itself to its parent with      *)
(* place or grid, once (a grid call may evict a sibling).  The             *)
(* caller reads collect_children() and color_abs of any widget.  ghost     *)
(* records how often each widget attached itself, and the last read: the   *)
(* method, the widget, the value returned, and the children lists and the  *)
(* colours as they were before the read.                                   *)
(***************************************************************************)
Widgets == 1..NumWidgets

\* The colours of the run: the default of Widget.__init__, or a colour of
\* its own for every widget.
Palettes ==
    {[w \in Widgets |-> <<R(1), R(1), R(1), R(1)>>],
     [w \in Widgets |-> <<Norm(1, w + 1), R(w + 1), R(1), <<1, 2>> >>]}

NoRead == [op |-> "none", arg |-> None, result |-> <<>>,
           children0 |-> <<>>, color0 |-> <<>>]

InitTree ==
    /\ parent \in {f \in [Widgets -> {None} \cup Widgets] :
                      /\ f[1] = None
                      /\ \A w \in Widgets \ {1} : f[w] \in 1..(w - 1)}
    /\ children = [w \in Widgets |-> <<>>]
    /\ children_grid = [w \in Widgets |-> <<>>]
    /\ columns = [w \in Widgets |-> 1]
    /\ rows = [w \in Widgets |-> 1]
    /\ shape = [w \in Widgets |->
                   IF w = 1 THEN Rectangle(R(0), R(0), R(100), R(100))
                   ELSE Rectangle(R(0), R(0), R(0), R(0))]
    /\ color \in Palettes
    /\ acts = <<>>
    /\ root = None
    /\ trace = <<>>
    /\ hist = NoHist
    /\ widget_actions = [w \in Widgets |-> <<>>]
    /\ wclass = [w \in Widgets |-> IF w = 1 THEN Scene ELSE Image]
    /\ theme = <<>>
    /\ renderers = Scene_renderers(theme)
    /\ rs = NoRender
    /\ AppIdle
    /\ ghost = [attach |-> [w \in Widgets |-> 0], read |-> NoRead]

\* w may attach itself: once.
MayAttach(w) ==
    /\ w # 1
    /\ ghost.attach[w] = 0

\* w.place(10, 10, 1, 2)
TreePlace(w) ==
    /\ MayAttach(w)
    /\ SetTree(Widget_place(Tree, w, R(10), R(10), R(1), R(2)))
    /\ ghost' = [attach |-> [ghost.attach EXCEPT ![w] = @ + 1],
                 read |-> NoRead]
    /\ UNCHANGED <<parent, color, actVars, sceneVars, appVars, rs>>

\* w.grid(), the cell (0, 0)
TreeGrid(w) ==
    /\ MayAttach(w)
    /\ SetTree(Widget_grid(Tree, w, 0, 0))
    /\ ghost' = [attach |-> [ghost.attach EXCEPT ![w] = @ + 1],
                 read |-> NoRead]
    /\ UNCHANGED <<parent, color, actVars, sceneVars, appVars, rs>>

\* w.collect_children()
TreeCollect(w) ==
    /\ LET c == Widget_collect_children(children, w)
       IN  /\ children' = c.children
           /\ ghost' = [ghost EXCEPT !.read =
                           [op |-> "collect_children", arg |-> w,
                            result |-> c.result, children0 |-> children,
                            color0 |-> color]]
    /\ UNCHANGED <<parent, shape, color, children_grid, columns, rows,
                   actVars, sceneVars, appVars, rs>>

\* w.color_abs
TreeColorAbs(w) ==
    /\ LET c == Widget_color_abs(parent, color, w)
       IN  /\ color' = c.color
           /\ ghost' = [ghost EXCEPT !.read =
                           [op |-> "color_abs", arg |-> w,
                            result |-> c.result, children0 |-> children,
                            color0 |-> color]]
    /\ UNCHANGED <<parent, shape, children, children_grid, columns, rows,
                   actVars, sceneVars, appVars, rs>>

NextTree ==
    \E w \in Widgets :
        TreePlace(w) \/ TreeGrid(w) \/ TreeCollect(w) \/ TreeColorAbs(w)

SpecTree == InitTree /\ [][NextTree]_vars

\* ------------------------------------------------- claims on the tree
RECURSIVE Reach(_, _)
\* The widgets reached from the set S over at most n children lists.
Reach(S, n) ==
    IF n = 0 THEN S
    ELSE Reach(S \cup UNION {Range(children[v]) : v \in S}, n - 1)

\* The proper descendants of w: the widgets reached over children lists.
Descendants(w) == Reach(Range(children[w]), NumWidgets)

\* The ancestors of w in the parent chain, w included.
RECURSIVE Ancestors(_)
Ancestors(w) ==
    IF parent[w] = None THEN {w} ELSE {w} \cup Ancestors(parent[w])

RECURSIVE ColorProduct(_, _)
\* The product of component i of the colours of the widgets in S.
ColorProduct(S, i) ==
    IF S = {} THEN R(1)
    ELSE LET v == CHOOSE v \in S : TRUE
         IN  RMul(color[v][i], ColorProduct(S \ {v}, i))

\* The first place of x in the list s.
Pos(s, x) == CHOOSE i \in 1..Len(s) : s[i] = x /\ \A j \in 1..(i - 1) : s[j] # x

C8_CollectExact ==
    /\ \A w \in Widgets :
           LET c == Widget_collect_children(children, w)
           IN  /\ Range(c.result) = Descendants(w)
               /\ Len(c.result) = Cardinality(Descendants(w))
               /\ w \notin Range(c.result)
               /\ c.children = children
    /\ ghost.read.op = "collect_children" =>
           /\ children = ghost.read.children0
           /\ Range(ghost.read.result) = Descendants(ghost.read.arg)
           /\ Widget_collect_children(children, ghost.read.arg).result
                  = ghost.read.result

\* C8 witness: collect_children() of the scene returned its three
\* descendants, one of them a grandchild.
C8_Witness ==
    /\ ghost.read.op = "collect_children" /\ ghost.read.arg = 1
    /\ Len(ghost.read.result) = 3
    /\ \E w \in Range(ghost.read.result) : parent[w] # 1

\* C9: color_abs of a widget is the component-wise product of the colours of
\* the widget and all its ancestors, its own colour for a widget without
\* parent, and reading it changes the colour of no widget.
C9_ColorAbs ==
    /\ \A w \in Widgets :
           LET c == Widget_color_abs(parent, color, w)
           IN  /\ c.result = [i \in 1..4 |-> ColorProduct(Ancestors(w), i)]
               /\ parent[w] = None => c.result = color[w]
               /\ c.color = color
    /\ ghost.read.op = "color_abs" =>
           /\ color = ghost.read.color0
           /\ ghost.read.result =
                  [i \in 1..4 |-> ColorProduct(Ancestors(ghost.read.arg), i)]

\* C9 witness: color_abs was read on a widget with a parent and a
\* grandparent whose colours are not the default, and is not its own colour.
C9_Witness ==
    /\ ghost.read.op = "color_abs"
    /\ parent[ghost.read.arg] # None
    /\ parent[parent[ghost.read.arg]] # None
    /\ ghost.read.result # color[ghost.read.arg]

\* ----------------------------------------------- a run of Scene.render
(***************************************************************************)
(* A scene of at most NumWidgets widgets, every widget but the scene an    *)
(* Image, a Block or a Label, placed in its parent; the theme has no font  *)
(* or the fonts f2 and f1.  The caller calls Scene.render, any number of   *)
(* times.  rs is the call in progress: pc the statement it is at, widgets  *)
(* the list collected, i the index of the widget of the current iteration, *)
(* semaphores and renderer the locals, result the value returned, and      *)
(* calls the calls made on renderers so far:                               *)
(*   <<"begin", renderer, semaphores>>, <<"draw", renderer, widget>>,      *)
(*   <<"end", renderer, handle>>.                                          *)
(* The handle returned by an end() is the number of the call (1, 2, ..),   *)
(* a fresh semaphore each time.  pc = "raised" is a VulkError raised.       *)
(***************************************************************************)
Themes == {<<>>, <<"f2", "f1">>}
WidgetClasses == {Image, Block, Label("default_font"), Label("f1")}

\* The tree in which the widgets 2..n have been placed, in this order.
RECURSIVE Placed(_, _)
Placed(t, n) ==
    IF n <= 1 THEN t
    ELSE Widget_place(Placed(t, n - 1), n, R(10), R(10), R(1), R(2))

InitRender ==
    \E n \in 1..NumWidgets :
        /\ parent \in {f \in [1..n -> {None} \cup (1..n)] :
                          /\ f[1] = None
                          /\ \A w \in 2..n : f[w] \in 1..(w - 1)}
        /\ LET t == Placed([children |-> [w \in 1..n |-> <<>>],
                            children_grid |-> [w \in 1..n |-> <<>>],
                            columns |-> [w \in 1..n |-> 1],
                            rows |-> [w \in 1..n |-> 1],
                            shape |-> [w \in 1..n |->
                                IF w = 1
                                THEN Rectangle(R(0), R(0), R(100), R(100))
                                ELSE Rectangle(R(0), R(0), R(0), R(0))]], n)
           IN  /\ children = t.children
               /\ children_grid = t.children_grid
               /\ columns = t.columns
               /\ rows = t.rows
               /\ shape = t.shape
        /\ color = [w \in 1..n |-> <<R(1), R(1), R(1), R(1)>>]
        /\ wclass \in {c \in [1..n -> {Scene} \cup WidgetClasses] :
                          /\ c[1] = Scene
                          /\ \A w \in 2..n : c[w] \in WidgetClasses}
        /\ theme \in Themes
        /\ renderers = Scene_renderers(theme)
        /\ acts = <<>>
        /\ widget_actions = [w \in 1..n |-> <<>>]
        /\ root = None
        /\ trace = <<>>
        /\ hist = NoHist
        /\ rs = NoRender
        /\ AppIdle
        /\ ghost = <<>>

RenderUnchanged == UNCHANGED <<treeVars, actVars, sceneVars, appVars, ghost>>

\* Scene.render is called: widgets = self.collect_children(),
\* semaphores = None.
RenderStart ==
    /\ rs.pc \in {"idle", "done", "raised"}
    /\ LET c == Widget_collect_children(children, 1)
       IN  rs' = [NoRender EXCEPT !.pc = "for", !.widgets = c.result, !.i = 1]
    /\ RenderUnchanged

\* for widget in widgets: a name that is not found falls back to the
\* renderer 'default'.
Mut_RenderLookup ==
    /\ rs.pc = "for" /\ rs.i <= Len(rs.widgets)
    /\ LET name == Widget_get_renderer_name(wclass[rs.widgets[rs.i]])
       IN  rs' = [rs EXCEPT !.pc = "begin",
                            !.renderer = IF name \in DOMAIN renderers
                                         THEN renderers[name]
                                         ELSE renderers["default"]]
    /\ RenderUnchanged

\* for widget in widgets: renderer = self.renderers[name], the name found.
RenderLookup ==
    /\ rs.pc = "for" /\ rs.i <= Len(rs.widgets)
    /\ LET name == Widget_get_renderer_name(wclass[rs.widgets[rs.i]])
       IN  /\ name \in DOMAIN renderers
           /\ rs' = [rs EXCEPT !.pc = "begin", !.renderer = renderers[name]]
    /\ RenderUnchanged

\* for widget in widgets: KeyError, the name not found: raise VulkError.
RenderRaise ==
    /\ rs.pc = "for" /\ rs.i <= Len(rs.widgets)
    /\ Widget_get_renderer_name(wclass[rs.widgets[rs.i]])
           \notin DOMAIN renderers
    /\ rs' = [rs EXCEPT !.pc = "raised"]
    /\ RenderUnchanged

\* renderer.begin(context, semaphores)
RenderBegin ==
    /\ rs.pc = "begin"
    /\ rs' = [rs EXCEPT !.pc = "draw",
                        !.calls = Append(@, <<"begin", rs.renderer,
                                              rs.semaphores>>)]
    /\ RenderUnchanged

\* widget.render(renderer): the draw call of the widget
RenderDraw ==
    /\ rs.pc = "draw"
    /\ rs' = [rs EXCEPT !.pc = "end",
                        !.calls = Append(@, <<"draw", rs.renderer,
                                              rs.widgets[rs.i]>>)]
    /\ RenderUnchanged

\* semaphores = [renderer.end()] keeping the semaphores of before.
Mut_RenderEnd ==
    /\ rs.pc = "end"
    /\ LET handle == rs.i
       IN  rs' = [rs EXCEPT !.pc = "for", !.i = @ + 1,
                            !.semaphores = IF @ = NoList THEN <<handle>> ELSE @,
                            !.calls = Append(@, <<"end", rs.renderer, handle>>)]
    /\ RenderUnchanged

\* semaphores = [renderer.end()]
RenderEnd ==
    /\ rs.pc = "end"
    /\ LET handle == rs.i
       IN  rs' = [rs EXCEPT !.pc = "for", !.i = @ + 1,
                            !.semaphores = <<handle>>,
                            !.calls = Append(@, <<"end", rs.renderer, handle>>)]
    /\ RenderUnchanged

\* return of a handle not yet given out where there is no semaphore.
Mut_RenderReturn ==
    /\ rs.pc = "for" /\ rs.i > Len(rs.widgets)
    /\ rs' = [rs EXCEPT !.pc = "done",
                        !.result = IF rs.semaphores # NoList
                                      /\ rs.semaphores # <<>>
                                   THEN rs.semaphores[1] ELSE rs.i]
    /\ RenderUnchanged

\* return semaphores[0] if semaphores else None
RenderReturn ==
    /\ rs.pc = "for" /\ rs.i > Len(rs.widgets)
    /\ rs' = [rs EXCEPT !.pc = "done",
                        !.result = IF rs.semaphores # NoList
                                      /\ rs.semaphores # <<>>
                                   THEN rs.semaphores[1] ELSE None]
    /\ RenderUnchanged

NextRender ==
    \/ RenderStart
    \/ RenderLookup
    \/ RenderRaise
    \/ RenderBegin
    \/ RenderDraw
    \/ RenderEnd
    \/ RenderReturn

SpecRender == InitRender /\ [][NextRender]_vars

\* ------------------------------------------- claims on Scene.render
\* C10: Scene.render goes through the widgets in the order of
\* collect_children(); for the k-th widget it calls begin, the widget's draw
\* and end, once each and in this order, on the renderer registered under the
\* widget's renderer name, so that no two renderers are open at a time; the
\* first begin gets None and every later begin the handle returned by the
\* end() before it; and render returns the handle of the last end(), None
\* for a scene without widgets.
C10_RenderOrder ==
    LET ws == Widget_collect_children(children, 1).result
        n == Len(rs.calls)
        widget(j) == ws[((j - 1) \div 3) + 1]
        renderer(j) == renderers[Widget_get_renderer_name(wclass[widget(j)])]
    IN  /\ n <= 3 * Len(ws)
        /\ \A j \in 1..n :
               /\ rs.calls[j][2] = renderer(j)
               /\ (j % 3 = 1) =>
                      /\ rs.calls[j][1] = "begin"
                      /\ rs.calls[j][3] =
                             (IF j = 1 THEN NoList ELSE <<rs.calls[j - 1][3]>>)
               /\ (j % 3 = 2) =>
                      /\ rs.calls[j][1] = "draw"
                      /\ rs.calls[j][3] = widget(j)
               /\ (j % 3 = 0) =>
                      /\ rs.calls[j][1] = "end"
                      /\ \A k \in 1..(j - 1) :
                             rs.calls[k][1] = "end"
                                 => rs.calls[k][3] # rs.calls[j][3]
        /\ rs.pc = "done" =>
               /\ n = 3 * Len(ws)
               /\ ws # <<>> => rs.result = rs.calls[n][3]
               /\ ws = <<>> => rs.result = None

\* C10 witness: a render of three widgets on at least two renderers has
\* returned.
C10_Witness ==
    /\ rs.pc = "done"
    /\ Len(rs.widgets) = 3
    /\ Len(rs.calls) = 9
    /\ rs.calls[1][2] # rs.calls[4][2]
    /\ rs.result = rs.calls[9][3]

\* C11: Scene.render on a scene without descendants returns None and calls
\* begin, draw and end on no renderer.
C11_EmptyRender ==
    children[1] = <<>> =>
        /\ rs.calls = <<>>
        /\ rs.pc # "raised"
        /\ rs.pc = "done" => rs.result = None /\ rs.widgets = <<>>

\* C11 witness: render has returned on a scene without children.
C11_Witness ==
    /\ children[1] = <<>>
    /\ rs.pc = "done"
    /\ rs.result = None
    /\ rs.calls = <<>>

\* The renderer name of the k-th widget of the list of the call in progress.
NameAt(k) == Widget_get_renderer_name(wclass[rs.widgets[k]])

\* C12: when the renderer name of a widget is not a key of the registry,
\* render raises VulkError at that widget: begin, draw and end are called
\* for no widget without renderer and for no widget after it, every begin
\* before it has its end, and no handle is returned.
C12_MissingRenderer ==
    /\ rs.pc \in {"begin", "draw", "end"} =>
           \A k \in 1..rs.i : NameAt(k) \in DOMAIN renderers
    /\ \A j \in 1..Len(rs.calls) :
           NameAt(((j - 1) \div 3) + 1) \in DOMAIN renderers
    /\ rs.pc = "raised" =>
           /\ NameAt(rs.i) \notin DOMAIN renderers
           /\ \A k \in 1..(rs.i - 1) : NameAt(k) \in DOMAIN renderers
           /\ Len(rs.calls) = 3 * (rs.i - 1)
           /\ \A j \in 1..Len(rs.calls) :
                  rs.calls[j][1] = (CASE j % 3 = 1 -> "begin"
                                      [] j % 3 = 2 -> "draw"
                                      [] j % 3 = 0 -> "end")
           /\ rs.result = None
    /\ rs.pc = "done" =>
           \A k \in 1..Len(rs.widgets) : NameAt(k) \in DOMAIN renderers

\* C12 witness: render raised at the second widget of three, after the
\* begin, draw and end of the first.
C12_Witness ==
    /\ rs.pc = "raised"
    /\ Len(rs.widgets) = 3
    /\ rs.i = 2
    /\ Len(rs.calls) = 3
    /\ rs.calls[3][1] = "end"

\* C18: the registry has the keys 'default' and 'block' and one key per font
\* of the theme; it has the key 'default_font' exactly if the theme has a
\* font, and then 'default_font' is the renderer of the first font, which no
\* other font has.  So in a scene whose theme has no font, render raises
\* VulkError at a Label with the default font_name and calls nothing for it.
C18_Registry ==
    /\ DOMAIN renderers \ {"default_font"} = {"default", "block"} \cup Range(theme)
    /\ "default_font" \in DOMAIN renderers <=> theme # <<>>
    /\ theme # <<>> =>
           /\ renderers["default_font"] = renderers[theme[1]]
           /\ \A i \in 2..Len(theme) :
                  renderers[theme[i]] # renderers["default_font"]
    /\ renderers["default"] # renderers["block"]
    /\ \A n \in Range(theme) :
           renderers[n] \notin {renderers["default"], renderers["block"]}
    /\ (theme = <<>> /\ rs.pc \in {"begin", "draw", "end", "raised"}) =>
           /\ wclass[rs.widgets[rs.i]] = Label("default_font")
                  => rs.pc = "raised"
           /\ \A j \in 1..Len(rs.calls) :
                  wclass[rs.widgets[((j - 1) \div 3) + 1]].class # "Label"

\* C18 witness: in a scene whose theme has no font, render raised VulkError
\* at a Label with the default font_name.
C18_Witness ==
    /\ theme = <<>>
    /\ "default_font" \notin DOMAIN renderers
    /\ rs.pc = "raised"
    /\ wclass[rs.widgets[rs.i]] = Label("default_font")

\* ------------------------------------ a run of the widgets' actions
(***************************************************************************)
(* A scene, a panel placed in it and a widget placed in the panel, and a   *)
(* heap of actions built by the caller.  The caller calls add_action and   *)
(* remove_action on the panel and the widget with the actions that are not *)
(* part of another one, update on the panel and the widget, and update on  *)
(* the scene, at most MaxOps calls in all.  ghost.ops counts the calls and *)
(* ghost.last is the last call: its name, widget, action, delta and the    *)
(* exception it raised ("": none); trace is the log of that call.          *)
(***************************************************************************)
UpdateHeaps ==
    LET a == Leaf("TemporalAction", 1)
        b == Leaf("MoveBy", 2)
    IN  {<<a, b>>,
         <<a, b, New_Sequence(<<1, 2>>)>>,
         <<a, b, New_Parallel(<<1, 2>>)>>,
         <<b, New_Repeat(1, 2)>>}

\* The actions of the heap that are not part of another action.
TopActions ==
    LET part(a) ==
            CASE acts[a].kind \in {"Sequence", "Parallel"} ->
                     Range(acts[a].actions_src)
              [] acts[a].kind = "Repeat" -> {acts[a].action}
              [] OTHER -> {}
    IN  (1..Len(acts)) \ UNION {part(a) : a \in 1..Len(acts)}

\* The widgets that take actions: the panel and the widget in it.
Actors == {Panel, Target}

NoOp == [op |-> "none", w |-> None, a |-> None, delta |-> 0, raised |-> ""]

UWorld ==
    [acts |-> acts, shape |-> shape, color |-> color, trace |-> <<>>,
     actions |-> widget_actions]

\* The fields of the world become those of w.
SetUWorld(w) ==
    /\ acts' = w.acts
    /\ shape' = w.shape
    /\ color' = w.color
    /\ trace' = w.trace
    /\ widget_actions' = w.actions

UpdateUnchanged ==
    UNCHANGED <<parent, children, children_grid, columns, rows, root, hist,
                sceneVars, appVars, rs>>

InitUpdate ==
    /\ parent = <<None, 1, 2>>
    /\ children = << <<2>>, <<3>>, <<>> >>
    /\ shape = << Rectangle(R(0), R(0), R(100), R(100)),
                  Rectangle(R(10), R(20), R(50), R(50)),
                  Rectangle(R(11), R(22), R(8), R(8)) >>
    /\ color = [w \in 1..3 |-> <<R(1), R(1), R(1), R(1)>>]
    /\ children_grid = [w \in 1..3 |-> <<>>]
    /\ columns = [w \in 1..3 |-> 1]
    /\ rows = [w \in 1..3 |-> 1]
    /\ acts \in UpdateHeaps
    /\ widget_actions = [w \in 1..3 |-> <<>>]
    /\ root = None
    /\ trace = <<>>
    /\ hist = NoHist
    /\ wclass = <<Scene, Image, Image>>
    /\ theme = <<>>
    /\ renderers = Scene_renderers(theme)
    /\ rs = NoRender
    /\ AppIdle
    /\ ghost = [ops |-> 0, last |-> NoOp]

\* wid.add_action(a)
AddAction(wid, a) ==
    /\ ghost.ops < MaxOps
    /\ \E w \in {Widget_add_action(UWorld, wid, a)} : SetUWorld(w)
    /\ ghost' = [ops |-> ghost.ops + 1,
                 last |-> [NoOp EXCEPT !.op = "add_action", !.w = wid, !.a = a]]
    /\ UpdateUnchanged

\* wid.remove_action(a)
RemoveAction(wid, a) ==
    /\ ghost.ops < MaxOps
    /\ \E r \in {Widget_remove_action(UWorld, wid, a)} :
           /\ SetUWorld(r.w)
           /\ ghost' = [ops |-> ghost.ops + 1,
                        last |-> [NoOp EXCEPT !.op = "remove_action",
                                              !.w = wid, !.a = a,
                                              !.raised = r.raised]]
    /\ UpdateUnchanged

\* wid.update(delta), wid not the scene
WidgetUpdate(wid, delta) ==
    /\ ghost.ops < MaxOps
    /\ \E w \in {Widget_update(UWorld, wid, delta)} : SetUWorld(w)
    /\ ghost' = [ops |-> ghost.ops + 1,
                 last |-> [NoOp EXCEPT !.op = "Widget.update", !.w = wid,
                                       !.delta = delta]]
    /\ UpdateUnchanged

\* scene.update(delta)
SceneUpdate(delta) ==
    /\ ghost.ops < MaxOps
    /\ \E w \in {Scene_update(UWorld, delta)} : SetUWorld(w)
    /\ ghost' = [ops |-> ghost.ops + 1,
                 last |-> [NoOp EXCEPT !.op = "Scene.update", !.w = 1,
                                       !.delta = delta]]
    /\ UpdateUnchanged

NextUpdate ==
    \/ \E wid \in Actors, a \in TopActions : AddAction(wid, a)
    \/ \E wid \in Actors, a \in TopActions : RemoveAction(wid, a)
    \/ \E wid \in Actors, delta \in Deltas : WidgetUpdate(wid, delta)
    \/ \E delta \in Deltas : SceneUpdate(delta)

SpecUpdate == InitUpdate /\ [][NextUpdate]_vars

\* ---------------------------------- claims on the widgets' actions
\* The entries <<"call", wid, action, ret>> of the log t, in order.
CallsAt(t, wid) ==
    LET Test(e) == e[1] = "call" /\ e[2] = wid
    IN  SelectSeq(t, Test)

\* The widgets on which the log t has a Widget.update call, in order.
UpdatedWidgets(t) ==
    LET Test(e) == e[1] = "Widget.update"
        es == SelectSeq(t, Test)
    IN  [i \in 1..Len(es) |-> es[i][2]]

\* Whether the elements of the list s are pairwise distinct.
Distinct(s) == \A i, j \in 1..Len(s) : s[i] = s[j] => i = j

\* The elements of the list s at the places where keep is true, in order.
Kept(s, keep) ==
    LET pick[i \in 0..Len(s)] ==
            IF i = 0 THEN <<>>
            ELSE IF keep[i] THEN Append(pick[i - 1], s[i])
            ELSE pick[i - 1]
    IN  pick[Len(s)]

\* C13 as claimed: one call of Scene.update(delta) calls update(delta)
\* exactly once on each descendant of the scene.
C13_UpdateOnce ==
    ghost.last.op = "Scene.update" =>
        \A d \in Descendants(1) :
            Cardinality({i \in 1..Len(trace) :
                            trace[i] = <<"Widget.update", d>>}) = 1

\* C14: one call of Widget.update(delta) on a widget whose actions are
\* pairwise distinct calls update(delta) once on every action of the list as
\* it was at the start, in list order; afterwards the list holds exactly
\* the actions whose update returned true, in their order, so that an action
\* that returned false is not updated through this widget again; and then
\* update(delta) is called on every child, in list order.
C14_WidgetUpdate ==
    [][\A wid \in Actors, delta \in Deltas :
         WidgetUpdate(wid, delta) =>
             /\ UpdatedWidgets(trace')
                    = <<wid>> \o Widget_collect_children(children, wid).result
             /\ \A d \in {wid} \cup Descendants(wid) :
                    LET lst == widget_actions[d]
                        cs == CallsAt(trace', d)
                    IN  Distinct(lst) =>
                            /\ Len(cs) = Len(lst)
                            /\ \A i \in 1..Len(lst) : cs[i][3] = lst[i]
                            /\ widget_actions'[d]
                                   = Kept(lst, [i \in 1..Len(lst) |-> cs[i][4]])
                            /\ \A i \in 1..Len(lst) :
                                   ~cs[i][4] =>
                                       lst[i] \notin Range(widget_actions'[d])
             /\ \A i, j \in 1..Len(trace') :
                    (trace'[i][1] = "call" /\ trace'[i][2] = wid
                         /\ trace'[j][1] = "Widget.update" /\ j > 1) => i < j]_vars

\* C14 witness: update(1) on a widget with the actions 1, of duration 1, and
\* 2, of duration 2: both were updated, in this order, 1 returned false and
\* is gone, 2 returned true and stays.
C14_Witness ==
    /\ ghost.last.op = "Widget.update" /\ ghost.last.w = Target
    /\ CallsAt(trace, Target)
           = << <<"call", Target, 1, FALSE>>, <<"call", Target, 2, TRUE>> >>
    /\ widget_actions[Target] = <<2>>

\* C15 as claimed: remove_action(action) on the widget the action is
\* attached to completes without error and leaves the action out of the
\* widget's list; on a widget it is not attached to it does nothing.
C15_RemoveDetaches ==
    ghost.last.op = "remove_action" =>
        /\ ghost.last.raised = ""
        /\ ghost.last.a \notin Range(widget_actions[ghost.last.w])

\* Whether the temporal action c is as init leaves a new one.
ResetLeaf(c, wid) ==
    /\ acts[c].widget = wid
    /\ acts[c].time = 0
    /\ acts[c].kind = "MoveBy" =>
           acts[c].x_prev = R(0) /\ acts[c].y_prev = R(0)

\* C16 as claimed: after init(widget), whatever came before, the action is
\* bound to the widget and its progress is reset: a temporal action has time
\* 0 (a MoveBy also x_prev = y_prev = 0), a Sequence has no current child
\* and its working list is its source list, a Parallel has all its children
\* in the working list, each re-initialised, and a Repeat counts from 1.
C16_InitResets ==
    ghost.last.op = "add_action" =>
        LET a == ghost.last.a
            wid == ghost.last.w
            k == acts[a].kind
        IN  /\ acts[a].widget = wid
            /\ k \in TemporalKinds => ResetLeaf(a, wid)
            /\ k = "Sequence" =>
                   /\ acts[a].current_action = None
                   /\ acts[a].actions = acts[a].actions_src
            /\ k = "Parallel" =>
                   /\ acts[a].actions = acts[a].actions_src
                   /\ \A c \in Range(acts[a].actions_src) : ResetLeaf(c, wid)
            /\ k = "Repeat" =>
                   /\ acts[a].current_count = 1
                   /\ ResetLeaf(acts[a].action, wid)

CallsIn(t, method) ==
    LET Test(e) == e[1] = method /\ e[2] # root
        es == SelectSeq(t, Test)
    IN  [i \in 1..Len(es) |-> es[i][2]]

\* The longest duration of the temporal actions of the list ids, 0 if none.
MaxDuration_of(ids) ==
    IF ids = <<>> THEN 0 ELSE SetMax({acts[c].duration : c \in Range(ids)})

\* C22: init of a Parallel initialises every child, in list order, and makes
\* all of them active.  Every update(delta) advances every active child once,
\* in list order, and no other child; the children it finished leave the
\* active list, the others stay in order; it returns false exactly when the
\* active list is empty after it: on the call that brings the cumulative time
\* to the longest duration, or on the first call if there is no child.  No
\* init or update of a Parallel or a Sequence changes its actions_src.
C22_Parallel ==
    [][/\ RootKind = "Parallel" =>
            LET src == acts[root].actions_src
                active == acts[root].actions
                delta == hist'.total - hist.total
                fin(c) == acts'[c].time >= acts'[c].duration
            IN  /\ hist'.inits = hist.inits + 1 =>
                       /\ CallsIn(trace', "init") = src
                       /\ acts'[root].actions = src
                       /\ \A c \in Range(src) : acts'[c].time = 0
                /\ hist'.n = hist.n + 1 =>
                       /\ CallsIn(trace', "update") = active
                       /\ CallsIn(trace', "init") = <<>>
                       /\ \A c \in Range(active) :
                              acts'[c].time = acts[c].time + delta
                       /\ \A c \in Range(src) \ Range(active) :
                              /\ fin(c)
                              /\ acts'[c] = acts[c]
                       /\ acts'[root].actions
                              = Kept(active, [i \in 1..Len(active) |->
                                                  ~fin(active[i])])
                       /\ hist'.rets[hist'.n] <=> acts'[root].actions # <<>>
                       /\ hist'.rets[hist'.n]
                              <=> hist'.total < MaxDuration_of(src)
       /\ \A a \in 1..Len(acts) :
              acts[a].kind \in {"Sequence", "Parallel"} =>
                  acts'[a].actions_src = acts[a].actions_src]_vars

\* C22 witness: Parallel([a, b]), a of duration 1 and b of duration 2, after
\* one update of 1: both were advanced, a finished and left the active list,
\* b stays, and the call returned true.
C22_Witness ==
    /\ RootKind = "Parallel"
    /\ acts[root].actions_src = <<1, 2>>
    /\ acts[1].duration = 1 /\ acts[2].duration = 2
    /\ hist.rets = <<TRUE>>
    /\ CallsIn(trace, "update") = <<1, 2>>
    /\ acts[root].actions = <<2>>

\* ----------------------------------------------- a run of reshape_all
(***************************************************************************)
(* A scene, a panel built with the scene as parent and NumKids widgets     *)
(* built with the panel as parent.  The panel and the widgets call         *)
(* grid(column, row), once each at most; the caller moves or resizes the   *)
(* scene or the panel by writing its shape; any widget calls               *)
(* reshape_all().  At most MaxOps calls in all: ghost.ops counts them and  *)
(* ghost.last is the name of the last one.                                 *)
(***************************************************************************)
\* What the caller does to a shape: move it by (10, 10) or double its size.
ShapeChanges == {"move", "resize"}

Changed(r, how) ==
    IF how = "move"
    THEN Rectangle(RAdd(r.x, R(10)), RAdd(r.y, R(10)), r.width, r.height)
    ELSE Rectangle(r.x, r.y, RMul(r.width, R(2)), RMul(r.height, R(2)))

InitReshape ==
    /\ parent = [w \in 1..(2 + NumKids) |->
                    IF w = 1 THEN None ELSE IF w = Panel THEN 1 ELSE Panel]
    /\ color = [w \in 1..(2 + NumKids) |-> <<R(1), R(1), R(1), R(1)>>]
    /\ children = [w \in 1..(2 + NumKids) |-> <<>>]
    /\ children_grid = [w \in 1..(2 + NumKids) |-> <<>>]
    /\ columns = [w \in 1..(2 + NumKids) |-> 1]
    /\ rows = [w \in 1..(2 + NumKids) |-> 1]
    /\ shape = [w \in 1..(2 + NumKids) |->
                   IF w = 1 THEN Rectangle(R(0), R(0), R(200), R(200))
                   ELSE Rectangle(R(0), R(0), R(0), R(0))]
    /\ acts = <<>>
    /\ root = None
    /\ trace = <<>>
    /\ hist = NoHist
    /\ widget_actions = [w \in 1..(2 + NumKids) |-> <<>>]
    /\ wclass = [w \in 1..(2 + NumKids) |-> IF w = 1 THEN Scene ELSE Image]
    /\ theme = <<>>
    /\ renderers = Scene_renderers(theme)
    /\ rs = NoRender
    /\ AppIdle
    /\ ghost = [ops |-> 0, last |-> "none"]

ReshapeUnchanged == UNCHANGED <<parent, color, actVars, sceneVars, appVars, rs>>

\* w.grid(column, row), the first grid call of w; the panel before the
\* widgets in it.
FirstGrid(w, column, row) ==
    /\ ghost.ops < MaxOps
    /\ w \notin Range(children[parent[w]])
    /\ w \in Kids => Panel \in Range(children[1])
    /\ \E t \in {Widget_grid(Tree, w, column, row)} : SetTree(t)
    /\ ghost' = [ops |-> ghost.ops + 1, last |-> "grid"]
    /\ ReshapeUnchanged

\* The caller writes the shape of w: w.shape.x += 10 and so on.
SetShape(w, how) ==
    /\ ghost.ops < MaxOps
    /\ ghost.last # "set"
    /\ Panel \in Range(children[1])
    /\ shape' = [shape EXCEPT ![w] = Changed(@, how)]
    /\ ghost' = [ops |-> ghost.ops + 1, last |-> "set"]
    /\ UNCHANGED <<children, children_grid, columns, rows>>
    /\ ReshapeUnchanged

\* w.reshape_all()
ReshapeAll(w) ==
    /\ ghost.ops < MaxOps
    /\ \E t \in {Widget_reshape_all(Tree, w)} : SetTree(t)
    /\ ghost' = [ops |-> ghost.ops + 1, last |-> "reshape_all"]
    /\ ReshapeUnchanged

NextReshape ==
    \/ \E w \in {Panel} \cup Kids, cell \in GridCells :
           FirstGrid(w, cell[1], cell[2])
    \/ \E w \in {1, Panel}, how \in ShapeChanges : SetShape(w, how)
    \/ \E w \in 1..(2 + NumKids) : ReshapeAll(w)

SpecReshape == InitReshape /\ [][NextReshape]_vars

\* C23 as claimed: once reshape_all() has been called after a change of the
\* shape of a widget, every widget of every children_grid of the tree has
\* the rectangle of its cell, computed from the shape and the extents its
\* parent has now.
C23_ReshapeAll ==
    ghost.last = "reshape_all" =>
        \A p \in 1..(2 + NumKids) :
            \A i \in 1..Len(children_grid[p]) :
                LET e == children_grid[p][i]
                IN  shape[e.w] = CellRectangle(p, e.cell[1], e.cell[2])

\* ------------------------------------------------ a run of BaseApp.run
(***************************************************************************)
(* An application entered with its listeners registered: start has added   *)
(* the QuitEventListener, the application itself at most one more, before  *)
(* or after it; the caller may have called quit before run.  run is called *)
(* once; get_events returns any list of at most MaxEvents events; render,  *)
(* the application's own method, may call quit.  The loop is entered at    *)
(* most MaxFrames times.  ghost.frames counts the get_events calls and     *)
(* ghost.quit_frame is the value it had when request_quit was first set    *)
(* (-1: never).                                                            *)
(***************************************************************************)
\* No widget, no action and no scene.
SceneIdle ==
    /\ parent = <<>> /\ children = <<>> /\ shape = <<>> /\ color = <<>>
    /\ children_grid = <<>> /\ columns = <<>> /\ rows = <<>>
    /\ acts = <<>> /\ widget_actions = <<>> /\ root = None /\ trace = <<>>
    /\ hist = NoHist
    /\ wclass = <<>> /\ theme = <<>> /\ renderers = Scene_renderers(theme)
    /\ rs = NoRender

Events == {"QUIT", "KEY"}
EventLists == UNION {[1..n -> Events] : n \in 0..MaxEvents}

ListenerLists ==
    {BaseApp_start(NoApp).event_listeners,
     Append(BaseApp_start(NoApp).event_listeners, "Listener"),
     <<"Listener">> \o BaseApp_start(NoApp).event_listeners}

InitRun ==
    /\ SceneIdle
    /\ \E ls \in ListenerLists, q \in BOOLEAN :
        /\ app = [NoApp EXCEPT !.event_listeners = ls, !.request_quit = q]
        /\ ghost = [frames |-> 0, quit_frame |-> IF q THEN 0 ELSE -1]
    /\ clearvalue = NoClearValue
    /\ pool = NoPool

RunUnchanged ==
    UNCHANGED <<treeVars, actVars, sceneVars, rs, clearvalue, pool>>

\* The frame in which request_quit was first set, a the app after the step.
QuitFrame(a) ==
    IF a.request_quit /\ ghost.quit_frame = -1 THEN ghost.frames
    ELSE ghost.quit_frame

\* run is called: self.last_time = millis()
RunStart ==
    /\ app.pc = "idle"
    /\ app' = [app EXCEPT !.pc = "while"]
    /\ UNCHANGED ghost
    /\ RunUnchanged

\* while not self.request_quit
RunWhile ==
    /\ app.pc = "while"
    /\ app' = [app EXCEPT !.pc = IF BaseApp_run_while(app) THEN "get_events"
                                 ELSE "returned"]
    /\ UNCHANGED ghost
    /\ RunUnchanged

\* events = self.context.get_events()
RunGetEvents(events) ==
    /\ app.pc = "get_events"
    /\ ghost.frames < MaxFrames
    /\ app' = [app EXCEPT !.pc = "for", !.events = events, !.i = 1, !.j = 1,
                          !.calls = <<>>]
    /\ ghost' = [ghost EXCEPT !.frames = @ + 1]
    /\ RunUnchanged

\* listener.handle(event)
RunHandle ==
    /\ app.pc = "for"
    /\ ~BaseApp_run_for_end(app)
    /\ app.j <= Len(app.event_listeners)
    /\ \E a \in {Listener_handle(app, app.j, app.i)} :
        /\ app' = [a EXCEPT !.j = @ + 1]
        /\ ghost' = [ghost EXCEPT !.quit_frame = QuitFrame(a)]
    /\ RunUnchanged

\* the loop over the listeners ends: the next event
RunNextEvent ==
    /\ app.pc = "for"
    /\ ~BaseApp_run_for_end(app)
    /\ app.j > Len(app.event_listeners)
    /\ app' = [app EXCEPT !.i = @ + 1, !.j = 1]
    /\ UNCHANGED ghost
    /\ RunUnchanged

\* self.render(delta), calling quit or not; self.last_time = millis()
RunRender(quits) ==
    /\ app.pc = "for"
    /\ BaseApp_run_for_end(app)
    /\ \E a \in {[app EXCEPT !.calls = Append(@, <<"render">>),
                             !.pc = "while"]} :
        \E b \in {IF quits THEN BaseApp_quit(a) ELSE a} :
            /\ app' = b
            /\ ghost' = [ghost EXCEPT !.quit_frame = QuitFrame(b)]
    /\ RunUnchanged

NextRun ==
    \/ RunStart
    \/ RunWhile
    \/ \E events \in EventLists : RunGetEvents(events)
    \/ RunHandle
    \/ RunNextEvent
    \/ \E quits \in BOOLEAN : RunRender(quits)

SpecRun == InitRun /\ [][NextRun]_vars

\* The handle calls of one iteration: every event, in order, to every
\* listener, in order.
Dispatch(events, listeners) ==
    LET n == Len(listeners)
    IN  [k \in 1..(Len(events) * n) |->
            <<"handle", ((k - 1) % n) + 1, ((k - 1) \div n) + 1>>]

\* C24: run leaves the loop only with request_quit set.  In every iteration
\* every event get_events returned is given to every listener, in the order
\* of the events and, for one event, of the listeners, and then render is
\* called once, also in the iteration in which quit was called; after that
\* iteration run returns with no further get_events or render.  As long as
\* quit has not been called run does not return: the test of the loop sends
\* it to get_events again.
C24_Run ==
    /\ [](/\ app.pc = "for" =>
                 \E k \in 0..Len(Dispatch(app.events, app.event_listeners)) :
                     app.calls
                         = SubSeq(Dispatch(app.events, app.event_listeners),
                                  1, k)
          /\ (app.pc \in {"while", "returned"} /\ ghost.frames >= 1) =>
                 app.calls = Dispatch(app.events, app.event_listeners)
                                 \o << <<"render">> >>
          /\ app.pc = "returned" =>
                 /\ app.request_quit
                 /\ ghost.quit_frame = ghost.frames
          /\ ghost.quit_frame # -1 =>
                 /\ app.request_quit
                 /\ ghost.frames = ghost.quit_frame)
    /\ [][app.pc = "while" =>
              app'.pc = IF app.request_quit THEN "returned"
                        ELSE "get_events"]_vars

\* C24 witness: the listeners are the QuitEventListener and one more, the
\* first get_events returned a quit event and a key event: the four handle
\* calls and render were made, and run has returned.
C24_Witness ==
    /\ app.pc = "returned"
    /\ app.event_listeners = <<"QuitEventListener", "Listener">>
    /\ app.events = <<"QUIT", "KEY">>
    /\ ghost.frames = 1
    /\ app.calls = << <<"handle", 1, 1>>, <<"handle", 2, 1>>,
                      <<"handle", 1, 2>>, <<"handle", 2, 2>>, <<"render">> >>

\* ------------------------------------------- a call of ClearColorValue
(***************************************************************************)
(* The caller builds one ClearColorValue; each argument is None or a list  *)
(* of at most MaxLen numbers.                                              *)
(***************************************************************************)
Args == {NoArg} \cup {ListArg([k \in 1..n |-> 1]) : n \in 0..MaxLen}

InitClear ==
    /\ SceneIdle
    /\ app = NoApp
    /\ \E float32 \in Args, uint32 \in Args, int32 \in Args :
           clearvalue = [NoClearValue EXCEPT !.float32 = float32,
                                             !.uint32 = uint32,
                                             !.int32 = int32,
                                             !.pc = "call"]
    /\ pool = NoPool
    /\ ghost = <<>>

\* ClearColorValue(float32, uint32, int32)
Construct ==
    /\ clearvalue.pc = "call"
    /\ \E r \in {ClearColorValue_init(clearvalue.float32, clearvalue.uint32,
                                      clearvalue.int32)} :
           clearvalue' = [clearvalue EXCEPT !.pc = "done",
                                            !.raised = r.raised,
                                            !.clear = r.clear]
    /\ UNCHANGED <<treeVars, actVars, sceneVars, rs, app, pool, ghost>>

NextClear == Construct

SpecClear == InitClear /\ [][NextClear]_vars

\* C25 as claimed: with exactly one of float32, uint32, int32 given, a list
\* of 4 elements, the construction succeeds and clear holds that list under
\* that member, whichever it is; with none or more than one given it raises
\* VulkError; with one given that does not have 4 elements it raises
\* VulkError.  An argument is given when it is not None; nothing is said of
\* the calls that pass an empty list next to another argument.
C25_ClearColorValue ==
    clearvalue.pc = "done" =>
        LET t == [float32 |-> clearvalue.float32,
                  uint32 |-> clearvalue.uint32,
                  int32 |-> clearvalue.int32]
            given == {k \in DOMAIN t : ~t[k].none}
        IN  /\ Cardinality(given) = 0 => clearvalue.raised = "VulkError"
            /\ (Cardinality(given) > 1 /\ \A k \in given : t[k].v # <<>>)
                   => clearvalue.raised = "VulkError"
            /\ \A k \in given :
                   given = {k} =>
                       IF Len(t[k].v) = 4
                       THEN /\ clearvalue.raised = ""
                            /\ clearvalue.clear
                                   = [member |-> k, value |-> t[k].v]
                       ELSE clearvalue.raised = "VulkError"

\* ------------------------------------------------ a run of CommandPool
(***************************************************************************)
(* One CommandPool.  The caller allocates buffers, at most MaxBuffers in   *)
(* all, and calls free_buffers with any list of at most MaxFree buffers it *)
(* holds: buffers this pool returned, freed since or not, and the buffer   *)
(* of another pool; and it calls free.  ghost.allocated is the set of the  *)
(* buffers allocate_buffers returned, ghost.freed the set of those given   *)
(* to vkFreeCommandBuffers, and ghost.repeated tells whether a list with   *)
(* the same buffer twice was given to it.                                  *)
(***************************************************************************)
InitPool ==
    /\ SceneIdle
    /\ app = NoApp
    /\ clearvalue = NoClearValue
    /\ pool = NoPool
    /\ ghost = [allocated |-> {}, freed |-> {}, repeated |-> FALSE]

PoolUnchanged ==
    UNCHANGED <<treeVars, actVars, sceneVars, rs, app, clearvalue>>

\* The lists of buffers the caller can give to free_buffers.
BufferLists ==
    UNION {[1..n -> (1..pool.created) \cup {Foreign}] : n \in 0..MaxFree}

\* pool.allocate_buffers(context, level, count)
AllocateBuffers(count) ==
    /\ pool.created + count <= MaxBuffers
    /\ \E pl \in {CommandPool_allocate_buffers(pool, count)} :
        /\ pool' = pl
        /\ ghost' = [ghost EXCEPT !.allocated = @ \cup Range(pl.last.ret)]
    /\ PoolUnchanged

\* pool.free_buffers(context, buffers)
FreeBuffers(buffers) ==
    /\ \E pl \in {CommandPool_free_buffers(pool, buffers)} :
        /\ pool' = pl
        /\ ghost' = [ghost EXCEPT
                        !.freed = IF pl.last.vk # <<>>
                                  THEN @ \cup Range(buffers) ELSE @,
                        !.repeated = @ \/ (pl.last.vk # <<>>
                                              /\ ~Distinct(buffers))]
    /\ PoolUnchanged

\* pool.free(context)
Free ==
    /\ \E pl \in {CommandPool_free(pool)} :
        /\ pool' = pl
        /\ ghost' = [ghost EXCEPT !.freed =
                        IF pl.last.vk # <<>> THEN @ \cup Range(pl.last.buffers)
                        ELSE @]
    /\ PoolUnchanged

NextPool ==
    \/ \E count \in 0..MaxBuffers : AllocateBuffers(count)
    \/ \E buffers \in BufferLists : FreeBuffers(buffers)
    \/ Free

SpecPool == InitPool /\ [][NextPool]_vars

C27_GridConsistent ==
    \A w \in DictKeys(children_grid[Panel]) :
        Cardinality({i \in 1..Len(children[Panel]) :
                        children[Panel][i] = w}) = 1

\* C28 as claimed: once a widget has called place(width, height, x, y), its
\* parent at any origin, x_rel is x and y_rel is y; for a widget without
\* parent x_rel is shape.x and y_rel is shape.y.
C28_Relative ==
    [][/\ \A w \in Widgets \ {1} :
              TreePlace(w) =>
                  /\ Widget_x_rel(shape', w) = R(1)
                  /\ Widget_y_rel(shape', w) = R(2)
       /\ \A w \in Widgets :
              parent[w] = None =>
                  /\ Widget_x_rel(shape', w) = shape'[w].x
                  /\ Widget_y_rel(shape', w) = shape'[w].y]_vars

\* C29 as claimed: a fresh Repeat(Sequence([a1..an]), count = N), N >= 1, of
\* temporal actions, driven with a fixed delta dividing every duration: every
\* cycle takes (sum of the durations) / delta update calls, so the update
\* calls return true before the call number N * sum / delta and false on it.
C29_RepeatSequence ==
    (/\ RootKind = "Repeat"
     /\ acts[acts[root].action].kind = "Sequence"
     /\ acts[root].count >= 1
     /\ hist.n >= 1 /\ hist.fixed
     /\ \A c \in Range(acts[acts[root].action].actions_src) :
            acts[c].duration % hist.dt = 0) =>
        LET kids == acts[acts[root].action].actions_src
            calls == SumDuration(kids) \div hist.dt
        IN  \A i \in 1..hist.n :
                hist.rets[i] <=> (i < acts[root].count * calls)

\* ------------------------------------ a run of the actions of a scene
(***************************************************************************)
(* The run of the widgets' actions with the scene taking actions too: the  *)
(* caller calls add_action on the scene and on the widget, and update on   *)
(* the scene.                                                              *)
(***************************************************************************)
NextSceneUpdate ==
    \/ \E wid \in {1, Target}, a \in TopActions : AddAction(wid, a)
    \/ \E delta \in Deltas : SceneUpdate(delta)

SpecSceneUpdate == InitUpdate /\ [][NextSceneUpdate]_vars

\* The actions in the list of a descendant of the scene.
DescendantActions ==
    UNION {Range(widget_actions[d]) : d \in Descendants(1)}

====
